---- MODULE Spec2Model ----
(***************************************************************************)
(* Model of the ingestion-to-storage core of the cryptocurrency pipeline:  *)
(*   - CryptoDatabase (src/src/database.py): the cryptocurrency_data table *)
(*     with its UNIQUE(coin_id, collected_at) constraint, insert_dataframe *)
(*     and delete_old_data, each run inside the _get_connection scope.     *)
(*   - CryptoDataProcessor.process_historical_data                         *)
(*     (src/src/data_processor.py): the merge of the three provider series.*)
(*                                                                         *)
(* Spec       : the storage engine driven by arbitrary calls.              *)
(* SpecMerge  : process_historical_data applied to arbitrary raw series.   *)
(***************************************************************************)
EXTENDS Integers, Sequences, FiniteSets, TLC

\* ------------------------------------------------------------------------
\* Bounds of the model
\* ------------------------------------------------------------------------
MaxBatchLen == 2
MaxClock == 1
MaxDays == 1
MaxPricesLen == 3
MaxSeriesLen == 2

\* ------------------------------------------------------------------------
\* Value domains
\* ------------------------------------------------------------------------
\* Rows of cryptocurrency_data, as handed to to_sql (the "id" column is
\* already named coin_id; the surrogate primary key is not represented).
\* The sample holds two coins collected at the same instant, one coin at
\* two instants, and two rows that share the pair (bitcoin, 0) and differ in
\* their price.
Rows ==
    {[coin_id |-> "bitcoin",  collected_at |-> 0, current_price |-> 10],
     [coin_id |-> "bitcoin",  collected_at |-> 0, current_price |-> 11],
     [coin_id |-> "bitcoin",  collected_at |-> 1, current_price |-> 10],
     [coin_id |-> "ethereum", collected_at |-> 0, current_price |-> 10]}

\* A DataFrame: a finite sequence of rows.
Batches == UNION {[1..n -> Rows] : n \in 0..MaxBatchLen}

Range(s) == {s[i] : i \in 1..Len(s)}

VARIABLES
    store,        \* committed rows of cryptocurrency_data
    now,          \* the storage clock (datetime('now')), in days
    last,         \* record of the last storage call: arguments and outcome
    raw_history,  \* argument of process_historical_data
    records,      \* DataFrame returned by process_historical_data
    mstate,       \* "input" before process_historical_data ran, "done" after
    hpc,          \* position of collect_historical_data
    top_coins,    \* the reference list it iterates over
    idx,          \* index of the coin being fetched
    requests,     \* provider requests made so far for each coin of the list
    total_saved,  \* its cumulative count
    outcomes,     \* the per-coin lines it has printed, in order
    rt,           \* record of the last collect_realtime_data run
    fx,           \* argument and result of the last pure function applied
    mn            \* position, resources and outcome of main()

histVars == <<hpc, top_coins, idx, requests, total_saved, outcomes>>

runVars == <<histVars, rt, fx, mn>>

vars ==
    <<store, now, last, raw_history, records, mstate, histVars, rt, fx, mn>>

\* ------------------------------------------------------------------------
\* Storage engine (src/src/database.py)
\* ------------------------------------------------------------------------

\* The pair the UNIQUE constraint is declared on.
Key(r) == <<r.coin_id, r.collected_at>>

HasKey(tbl, k) == \E r \in tbl : Key(r) = k

\* INSERT of one row with no uniqueness check at all.
InsertRow_NoUnique(tbl, row) ==
    [ok |-> TRUE, table |-> tbl \cup {row}]

\* INSERT OR REPLACE: the stored row with the same pair is overwritten.
InsertRow_Replace(tbl, row) ==
    [ok |-> TRUE, table |-> {r \in tbl : Key(r) # Key(row)} \cup {row}]

\* INSERT of one row into the table: UNIQUE(coin_id, collected_at) rejects
\* a row whose pair is already present and leaves the table as it was.
InsertRow(tbl, row) ==
    IF HasKey(tbl, Key(row))
    THEN [ok |-> FALSE, table |-> tbl]
    ELSE [ok |-> TRUE, table |-> tbl \cup {row}]

\* executemany over the rows, from row i on, inside the open transaction.
\* faultAt = i is a storage fault (sqlite3.OperationalError) hit while row i
\* is executed; faultAt = 0 means no fault.  The statement stops at the first
\* error; rows executed before it stay in the uncommitted working table.
RECURSIVE ExecuteMany(_, _, _, _)
ExecuteMany(tbl, rows, i, faultAt) ==
    IF i > Len(rows) THEN [table |-> tbl, error |-> "none"]
    ELSE IF faultAt = i THEN [table |-> tbl, error |-> "OperationalError"]
    ELSE LET ins == InsertRow(tbl, rows[i]) IN
         IF ~ins.ok THEN [table |-> tbl, error |-> "IntegrityError"]
         ELSE ExecuteMany(ins.table, rows, i + 1, faultAt)

\* A connection scope that commits whatever was written, even after an error.
GetConnection_NoRollback(committed, work, error) == work

\* _get_connection: commit when the block ended without error, rollback to
\* the committed table when it raised; the connection is closed either way.
GetConnection(committed, work, error) ==
    IF error = "none" THEN work ELSE committed

\* df.to_sql(..., if_exists="append") inside "with self._get_connection()":
\* all rows go through one executemany in one transaction; faultAt =
\* Len(rows) + 1 is a fault hit by the commit.
ToSql(committed, rows, faultAt) ==
    LET exec  == ExecuteMany(committed, rows, 1, faultAt)
        error == IF exec.error = "none" /\ faultAt = Len(rows) + 1
                 THEN "OperationalError" ELSE exec.error
    IN [table   |-> GetConnection(committed, exec.table, error),
        error   |-> error,
        written |-> Cardinality(exec.table \ committed),
        rowcount |-> Len(rows)]

\* insert_dataframe without the early return on an empty DataFrame.
insert_dataframe_NoEmptyCheck(st, df, faultAt) ==
    LET sql == ToSql(st, df, faultAt) IN
    [store |-> sql.table, ret |-> IF sql.error = "none" THEN sql.rowcount ELSE 0,
     raised |-> FALSE, conn |-> TRUE, error |-> sql.error, written |-> sql.written]

\* insert_dataframe(df): the value returned, the store afterwards, whether
\* an exception left the method, whether a connection was opened, the error
\* met inside the transaction and the rows written before it ended.
insert_dataframe(st, df, faultAt) ==
    IF df = <<>>
    THEN [store |-> st, ret |-> 0, raised |-> FALSE, conn |-> FALSE,
          error |-> "none", written |-> 0]
    ELSE LET sql == ToSql(st, df, faultAt) IN
         IF sql.error = "none"
         THEN [store |-> sql.table, ret |-> sql.rowcount, raised |-> FALSE,
               conn |-> TRUE, error |-> "none", written |-> sql.written]
         ELSE IF sql.error = "IntegrityError"
         THEN [store |-> sql.table, ret |-> 0, raised |-> FALSE,
               conn |-> TRUE, error |-> sql.error, written |-> sql.written]
         ELSE [store |-> sql.table, ret |-> 0, raised |-> FALSE,
               conn |-> TRUE, error |-> sql.error, written |-> sql.written]

\* delete_old_data(days_to_keep): DELETE ... WHERE collected_at <
\* datetime('now', '-N days'); returns cursor.rowcount.
delete_old_data(st, days_to_keep, clock) ==
    LET old == {r \in st : r.collected_at < clock - days_to_keep} IN
    [store |-> st \ old, ret |-> Cardinality(old)]

\* Rows of df whose pair is already stored / which are stored as they are.
Colliding(st, df) == {i \in 1..Len(df) : HasKey(st, Key(df[i]))}
Present(st, df) == {i \in 1..Len(df) : df[i] \in st}

NoCall ==
    [op |-> "none", len |-> 0, collide |-> 0, present |-> 0, persisted |-> 0,
     ret |-> 0, raised |-> FALSE, conn |-> FALSE, error |-> "none",
     written |-> 0, days |-> 0]

\* No orchestrator run has started.
HistIdle ==
    /\ hpc = "idle"
    /\ top_coins = <<>>
    /\ idx = 0
    /\ requests = <<>>
    /\ total_saved = 0
    /\ outcomes = <<>>

NoRun == [op |-> "none"]

OthersIdle ==
    /\ rt = NoRun
    /\ fx = NoRun
    /\ mn = NoRun

Init ==
    /\ store = {}
    /\ now = 0
    /\ last = NoCall
    /\ raw_history = [keys |-> {}, prices |-> <<>>, market_caps |-> <<>>,
                      total_volumes |-> <<>>]
    /\ records = <<>>
    /\ mstate = "input"
    /\ HistIdle
    /\ OthersIdle

\* A call of insert_dataframe with any DataFrame and any fault point.
InsertDataframe ==
    \E df \in Batches, faultAt \in 0..(MaxBatchLen + 1) :
        /\ faultAt <= Len(df) + 1
        /\ LET r == insert_dataframe(store, df, faultAt)
               fresh == (1..Len(df)) \ Colliding(store, df)
           IN /\ store' = r.store
              /\ last' = [op |-> "insert_dataframe",
                          len |-> Len(df),
                          collide |-> Cardinality(Colliding(store, df)),
                          present |-> Cardinality(Present(store, df)),
                          persisted |-> Cardinality({i \in fresh : df[i] \in r.store}),
                          ret |-> r.ret, raised |-> r.raised, conn |-> r.conn,
                          error |-> r.error, written |-> r.written,
                          days |-> 0]
        /\ UNCHANGED <<now, raw_history, records, mstate, runVars>>

\* A call of delete_old_data with any retention horizon.
DeleteOldData ==
    \E days_to_keep \in 0..MaxDays :
        /\ LET r == delete_old_data(store, days_to_keep, now) IN
              /\ store' = r.store
              /\ last' = [NoCall EXCEPT !.op = "delete_old_data", !.ret = r.ret,
                                        !.conn = TRUE, !.days = days_to_keep]
        /\ UNCHANGED <<now, raw_history, records, mstate, runVars>>

\* Time passes.
Tick ==
    /\ now < MaxClock
    /\ now' = now + 1
    /\ UNCHANGED <<store, last, raw_history, records, mstate, runVars>>

Next == InsertDataframe \/ DeleteOldData \/ Tick

Spec == Init /\ [][Next]_vars

\* ------------------------------------------------------------------------
\* Time-series merge (src/src/data_processor.py)
\* ------------------------------------------------------------------------

CoinIds == {"bitcoin", "ethereum"}

\* Provider timestamps, in milliseconds since the epoch.
Timestamps == {1500, 2000}

PriceValues == {10, 11}
CapValues == {20, 21}
VolumeValues == {30}

\* A provider series of at most maxLen [timestamp, value] pairs, in any
\* order and with repetitions.
Series(values, maxLen) ==
    UNION {[1..n -> Timestamps \X values] : n \in 0..maxLen}

\* An optional value: <<>> is None, <<v>> is the value v.
None == <<>>
Some(v) == <<v>>

\* datetime.fromtimestamp(ts / 1000): the naive datetime of the instant, to
\* the microsecond (the local zone is taken to be UTC).
FromTimestamp(ts) == [sec |-> ts \div 1000, usec |-> (ts % 1000) * 1000]

\* data_dict is a Python dict: the entries in insertion order, each carrying
\* its key ts.
InDict(dict, ts) == \E i \in 1..Len(dict) : dict[i].ts = ts

IndexOf(dict, ts) == CHOOSE i \in 1..Len(dict) : dict[i].ts = ts

NewEntry(ts, price) ==
    [ts |-> ts, current_price |-> Some(price), market_cap |-> None,
     total_volume |-> None]

\* Every price pair gets an entry of its own, as in a list.
SetPrice_Append(dict, ts, price) == Append(dict, NewEntry(ts, price))

\* A repeated timestamp moves to the end of the dict.
SetPrice_MoveToEnd(dict, ts, price) ==
    Append(SelectSeq(dict, LAMBDA e : e.ts # ts), NewEntry(ts, price))

\* data_dict[ts] = {"collected_at": ts, "current_price": price}: a new key is
\* appended, an existing key keeps its position and gets the new value.
SetPrice(dict, ts, price) ==
    IF InDict(dict, ts)
    THEN [dict EXCEPT ![IndexOf(dict, ts)] = NewEntry(ts, price)]
    ELSE Append(dict, NewEntry(ts, price))

\* A value whose timestamp has no entry goes to the last entry instead.
Attach_Nearest(dict, ts, field, value) ==
    IF InDict(dict, ts)
    THEN [dict EXCEPT ![IndexOf(dict, ts)][field] = Some(value)]
    ELSE IF dict # <<>>
    THEN [dict EXCEPT ![Len(dict)][field] = Some(value)]
    ELSE dict

\* A value whose timestamp has no entry creates one.
Attach_Union(dict, ts, field, value) ==
    IF InDict(dict, ts)
    THEN [dict EXCEPT ![IndexOf(dict, ts)][field] = Some(value)]
    ELSE Append(dict, [[ts |-> ts, current_price |-> None, market_cap |-> None,
                        total_volume |-> None] EXCEPT ![field] = Some(value)])

\* if ts in data_dict: data_dict[ts][field] = value
Attach(dict, ts, field, value) ==
    IF InDict(dict, ts)
    THEN [dict EXCEPT ![IndexOf(dict, ts)][field] = Some(value)]
    ELSE dict

\* for ts, price in prices: ...   (pairs i..Len(prices))
RECURSIVE PricesLoop(_, _, _)
PricesLoop(dict, prices, i) ==
    IF i > Len(prices) THEN dict
    ELSE PricesLoop(SetPrice(dict, prices[i][1], prices[i][2]), prices, i + 1)

\* for ts, mcap in market_caps: ... / for ts, vol in total_volumes: ...
RECURSIVE AttachLoop(_, _, _, _)
AttachLoop(dict, series, field, i) ==
    IF i > Len(series) THEN dict
    ELSE AttachLoop(Attach(dict, series[i][1], field, series[i][2]),
                    series, field, i + 1)

\* The record built for one entry of data_dict.
ToRecord(coin_id, e) ==
    [coin_id |-> coin_id, symbol |-> "",
     collected_at |-> FromTimestamp(e.ts),
     current_price |-> e.current_price,
     market_cap |-> e.market_cap,
     total_volume |-> e.total_volume]

\* process_historical_data(coin_id, raw_history): the rows of the DataFrame
\* returned, in order.  raw.keys are the keys present in the payload; a falsy
\* payload (None or {}) has no key.
process_historical_data(coin_id, raw) ==
    IF raw.keys = {} \/ "prices" \notin raw.keys
    THEN <<>>
    ELSE LET d1 == PricesLoop(<<>>, raw.prices, 1)
             d2 == AttachLoop(d1, raw.market_caps, "market_cap", 1)
             d3 == AttachLoop(d2, raw.total_volumes, "total_volume", 1)
         IN [i \in 1..Len(d3) |-> ToRecord(coin_id, d3[i])]

\* The payloads handed to process_historical_data: any subset of the three
\* keys, each present key with any series (raw_history.get(key, []) reads an
\* absent key as the empty list).
RawHistories ==
    {raw \in [keys : SUBSET {"prices", "market_caps", "total_volumes"},
              prices : Series(PriceValues, MaxPricesLen),
              market_caps : Series(CapValues, MaxSeriesLen),
              total_volumes : Series(VolumeValues, MaxSeriesLen)] :
        /\ "prices" \notin raw.keys => raw.prices = <<>>
        /\ "market_caps" \notin raw.keys => raw.market_caps = <<>>
        /\ "total_volumes" \notin raw.keys => raw.total_volumes = <<>>}

InitMerge ==
    /\ store = {}
    /\ now = 0
    /\ last = NoCall
    /\ raw_history \in RawHistories
    /\ records = <<>>
    /\ mstate = "input"
    /\ HistIdle
    /\ OthersIdle

\* A call of process_historical_data on the payload, for any coin.
ProcessHistorical ==
    /\ mstate = "input"
    /\ \E coin_id \in CoinIds :
           records' = process_historical_data(coin_id, raw_history)
    /\ mstate' = "done"
    /\ UNCHANGED <<store, now, last, raw_history, runVars>>

NextMerge == ProcessHistorical

SpecMerge == InitMerge /\ [][NextMerge]_vars

\* ------------------------------------------------------------------------
\* Claims about the storage engine (checked under Spec)
\* ------------------------------------------------------------------------

\* C1: idempotent upsert.  From every reachable store and for every non-empty
\* batch, when a first insert_dataframe call persists the batch (it returns
\* the number of rows), a second call with the same rows returns 0, raises
\* nothing and leaves the stored rows exactly as they were after the first
\* call, whatever happens to the storage during the second call.
C1_IdempotentUpsert ==
    \A df \in Batches \ {<<>>} :
        LET first == insert_dataframe(store, df, 0) IN
        first.ret = Len(df) =>
            \A faultAt \in 0..(Len(df) + 1) :
                LET second == insert_dataframe(first.store, df, faultAt) IN
                /\ second.ret = 0
                /\ ~second.raised
                /\ second.store = first.store

\* C1 witness: a non-empty batch all of whose rows are already stored as they
\* are was handed to insert_dataframe again, and the call returned 0.
C1_Witness ==
    /\ last.op = "insert_dataframe"
    /\ last.len > 0
    /\ last.present = last.len
    /\ last.error = "IntegrityError"
    /\ last.ret = 0

UniqueKeys == \A r1, r2 \in store : Key(r1) = Key(r2) => r1 = r2

NoOverwrite == \A r \in store : HasKey(store', Key(r)) => r \in store'

\* C2: uniqueness invariant.  In every reachable state no two stored rows
\* share the pair (coin_id, collected_at), and no step replaces a stored row
\* by another row with the same pair: a stored row whose pair is still stored
\* after the step is still stored itself.
C2_Uniqueness == []UniqueKeys /\ [][NoOverwrite]_vars

\* C2 witness: insert_dataframe was called with a row whose pair was stored
\* with another price, and the stored row is the one still there.
C2_Witness ==
    /\ last.op = "insert_dataframe"
    /\ last.collide > last.present
    /\ store # {}

\* C3 (as claimed): when some rows of the batch collide with stored rows and
\* the others do not, and no storage fault occurs, the rows that do not
\* collide are all persisted and the call returns their number.
C3_PartialCollisionClaim ==
    (/\ last.op = "insert_dataframe"
     /\ last.error # "OperationalError"
     /\ last.collide > 0
     /\ last.collide < last.len)
    => (/\ last.persisted = last.len - last.collide
        /\ last.ret = last.len - last.collide)

\* C4: all-or-nothing per batch.  From every reachable store, for every batch
\* and every point at which the call can fail (at a row or at the commit),
\* the rows committed before the call are all still stored, unchanged, and
\* the rows the call added are either all the rows of the batch or none.
C4_AllOrNothing ==
    \A df \in Batches :
        \A faultAt \in 0..(Len(df) + 1) :
            LET r == insert_dataframe(store, df, faultAt) IN
            /\ store \subseteq r.store
            /\ \/ r.store \ store = {}
               \/ r.store \ store = Range(df)

\* C4 witness: a call failed on a storage fault after it had written at least
\* one row of its batch inside the transaction.
C4_Witness ==
    /\ last.op = "insert_dataframe"
    /\ last.error = "OperationalError"
    /\ last.written >= 1
    /\ last.written < last.len

\* C5 (as claimed): a storage fault other than a uniqueness violation leaves
\* insert_dataframe as an error, not as a normal return value.
C5_FaultPropagatesClaim ==
    (last.op = "insert_dataframe" /\ last.error = "OperationalError")
    => last.raised

\* C6: an empty batch is a no-op.  Every insert_dataframe call with an empty
\* batch returns 0, raises nothing, opens no connection (so no fault can be
\* met) and leaves the stored rows unchanged.
C6_EmptyBatchNoOp ==
    [][(last'.op = "insert_dataframe" /\ last'.len = 0)
       => (/\ last'.ret = 0
           /\ ~last'.raised
           /\ ~last'.conn
           /\ last'.error = "none"
           /\ store' = store)]_vars

\* C6 witness: insert_dataframe was called with an empty batch on a store
\* that holds rows.
C6_Witness ==
    /\ last.op = "insert_dataframe"
    /\ last.len = 0
    /\ store # {}

\* ------------------------------------------------------------------------
\* Claims about the time-series merge (checked under SpecMerge)
\* ------------------------------------------------------------------------

TimestampsOf(series) == {series[i][1] : i \in 1..Len(series)}

\* The value a series carries at ts: that of its last pair at ts, None when
\* it has no pair at ts.
ValueAt(series, ts) ==
    IF ts \notin TimestampsOf(series) THEN None
    ELSE LET k == CHOOSE i \in 1..Len(series) :
                      /\ series[i][1] = ts
                      /\ \A j \in (i + 1)..Len(series) : series[j][1] # ts
         IN Some(series[k][2])

FirstIndex(series, ts) ==
    CHOOSE i \in 1..Len(series) :
        /\ series[i][1] = ts
        /\ \A j \in 1..(i - 1) : series[j][1] # ts

Before(a, b) == a.sec < b.sec \/ (a.sec = b.sec /\ a.usec < b.usec)

RecordInstants == {records[i].collected_at : i \in 1..Len(records)}

\* Exactly one record for every timestamp of tss, and no other record.
OneRecordPer(tss) ==
    /\ RecordInstants = {FromTimestamp(ts) : ts \in tss}
    /\ Len(records) = Cardinality(tss)

AllTimestamps ==
    TimestampsOf(raw_history.prices) \cup TimestampsOf(raw_history.market_caps)
        \cup TimestampsOf(raw_history.total_volumes)

\* C7 (as claimed): the output holds exactly one record for every timestamp
\* that appears in at least one of the three series, and no other record.
C7_UnionClaim == mstate = "done" => OneRecordPer(AllTimestamps)

\* C7 (amended): the output holds exactly one record for every timestamp that
\* appears in the prices series, and no record for any other timestamp.
C7_PriceTimestamps ==
    mstate = "done" => OneRecordPer(TimestampsOf(raw_history.prices))

\* C7 witness: a merge ran on a payload whose market_caps series has a
\* timestamp the prices series lacks, and it produced records.
C7_Witness ==
    /\ mstate = "done"
    /\ records # <<>>
    /\ TimestampsOf(raw_history.market_caps)
           \ TimestampsOf(raw_history.prices) # {}

\* C8: exact-timestamp matching.  Every output record stands for one provider
\* timestamp, and its market_cap (total_volume) is the value the market_caps
\* (total_volumes) series carries at exactly that timestamp, None when the
\* series has no pair there; so [(t,p)], [(t,m)], [] gives the single record
\* at t with price p, market cap m and no volume.
C8_ExactMatch ==
    mstate = "done" =>
        /\ \A i \in 1..Len(records) :
               \E ts \in Timestamps :
                   /\ records[i].collected_at = FromTimestamp(ts)
                   /\ records[i].market_cap
                          = ValueAt(raw_history.market_caps, ts)
                   /\ records[i].total_volume
                          = ValueAt(raw_history.total_volumes, ts)
        /\ \A t \in Timestamps, p \in PriceValues, m \in CapValues :
               (/\ raw_history.prices = <<(<<t, p>>)>>
                /\ raw_history.market_caps = <<(<<t, m>>)>>
                /\ raw_history.total_volumes = <<>>)
               => /\ Len(records) = 1
                  /\ records[1].collected_at = FromTimestamp(t)
                  /\ records[1].current_price = Some(p)
                  /\ records[1].market_cap = Some(m)
                  /\ records[1].total_volume = None

\* C8 witness: the merge of [(t,p)], [(t,m)], [] ran.
C8_Witness ==
    /\ mstate = "done"
    /\ raw_history.prices = <<(<<1500, 10>>)>>
    /\ raw_history.market_caps = <<(<<1500, 21>>)>>
    /\ raw_history.total_volumes = <<>>
    /\ Len(records) = 1

Ascending ==
    \A i, j \in 1..Len(records) :
        i < j => Before(records[i].collected_at, records[j].collected_at)

PricesAscending ==
    \A i, j \in 1..Len(raw_history.prices) :
        i < j => raw_history.prices[i][1] < raw_history.prices[j][1]

\* C9 (as claimed): whatever the order of the pairs in the input series, the
\* output records are in strictly ascending timestamp order.
C9_SortedClaim == mstate = "done" => Ascending

\* C9 (amended): the output records follow the order in which their
\* timestamps first appear in the prices series (no sorting is applied); so
\* they are in strictly ascending order of provider timestamp whenever the
\* prices series lists its pairs in strictly ascending timestamp order.
C9_PriceOrder ==
    mstate = "done" =>
        /\ \A i, j \in 1..Len(records) :
               i < j =>
                   \E a, b \in TimestampsOf(raw_history.prices) :
                       /\ records[i].collected_at = FromTimestamp(a)
                       /\ records[j].collected_at = FromTimestamp(b)
                       /\ FirstIndex(raw_history.prices, a)
                              < FirstIndex(raw_history.prices, b)
        /\ PricesAscending => Ascending

\* C9 witness: a merge produced two records from a prices series listed in
\* ascending order.
C9_Witness ==
    /\ mstate = "done"
    /\ Len(records) >= 2
    /\ PricesAscending

\* C10: the price series is authoritative.  When the payload has no prices
\* key or an empty prices series, the result is empty, whatever market_caps
\* and total_volumes contain.
C10_EmptyPrices ==
    (mstate = "done" /\ raw_history.prices = <<>>) => records = <<>>

\* C10 witness: a merge ran on a payload with no price pair and non-empty
\* market_caps and total_volumes series, with the prices key present.
C10_Witness ==
    /\ mstate = "done"
    /\ "prices" \in raw_history.keys
    /\ raw_history.prices = <<>>
    /\ raw_history.market_caps # <<>>
    /\ raw_history.total_volumes # <<>>

\* ------------------------------------------------------------------------
\* The historical run: collect_historical_data and the chart-range client
\* ------------------------------------------------------------------------
MaxCoins == 2
MaxRequests == 3

\* Entries of the reference list, as the markets endpoint returns them: the
\* provider's symbols are lower-case.
CoinPool ==
    <<[id |-> "bitcoin",  symbol |-> "btc",  name |-> "Bitcoin"],
      [id |-> "ethereum", symbol |-> "eth",  name |-> "Ethereum"],
      [id |-> "tether",   symbol |-> "usdt", name |-> "Tether"],
      [id |-> "solana",   symbol |-> "sol",  name |-> "Solana"]>>

Min(a, b) == IF a < b THEN a ELSE b

\* What get_top_cryptocurrencies hands to the run: None on a failed request,
\* else the first coins of the ranking (possibly none).
TopCoinResults ==
    {None} \cup
    {Some(SubSeq(CoinPool, 1, n)) : n \in 0..Min(MaxCoins, Len(CoinPool))}

\* Bodies of the chart-range endpoint.
EmptyObject ==
    [keys |-> {}, prices |-> <<>>, market_caps |-> <<>>, total_volumes |-> <<>>]

GoodPayload ==
    [keys |-> {"prices", "market_caps", "total_volumes"},
     prices |-> <<<<1500, 10>>, <<2000, 11>>>>,
     market_caps |-> <<<<1500, 20>>>>,
     total_volumes |-> <<>>]

NegativePayload ==
    [keys |-> {"prices"}, prices |-> <<<<1500, -5>>>>,
     market_caps |-> <<>>, total_volumes |-> <<>>]

EmptyPricesPayload ==
    [keys |-> {"prices", "market_caps"}, prices |-> <<>>,
     market_caps |-> <<<<1500, 20>>>>, total_volumes |-> <<>>]

HistPayloads == {EmptyObject, GoodPayload, NegativePayload, EmptyPricesPayload}

\* Answers to one request of get_coin_market_chart_range: an HTTP status with
\* a body, or no answer at all (timeout, connection error).
ChartResponses ==
    {[status |-> "429", body |-> EmptyObject],
     [status |-> "404", body |-> EmptyObject],
     [status |-> "500", body |-> EmptyObject],
     [status |-> "timeout", body |-> EmptyObject]}
    \cup {[status |-> "200", body |-> b] : b \in HistPayloads}

\* The HTTP error escapes the client.
get_coin_market_chart_range_Uncaught(resp) ==
    IF resp.status = "timeout"
    THEN [raised |-> FALSE, data |-> None]
    ELSE IF resp.status \in {"404", "500"}
    THEN [raised |-> TRUE, data |-> None]
    ELSE IF resp.body.keys = {} \/ "prices" \notin resp.body.keys
            \/ resp.body.prices = <<>>
    THEN [raised |-> FALSE, data |-> None]
    ELSE [raised |-> FALSE, data |-> Some(resp.body)]

\* get_coin_market_chart_range on an answer other than 429: what the call
\* returns and whether an exception leaves it.  raise_for_status raises on
\* 404/500 and the except clauses turn every exception into None; a body
\* without prices is None as well.
get_coin_market_chart_range(resp) ==
    IF resp.status = "timeout"
    THEN [raised |-> FALSE, data |-> None]
    ELSE IF resp.status \in {"404", "500"}
    THEN [raised |-> FALSE, data |-> None]
    ELSE IF resp.body.keys = {} \/ "prices" \notin resp.body.keys
            \/ resp.body.prices = <<>>
    THEN [raised |-> FALSE, data |-> None]
    ELSE [raised |-> FALSE, data |-> Some(resp.body)]

\* df["symbol"] = symbol; df["name"] = name
BackFill(df, symbol, name) ==
    [i \in 1..Len(df) |->
        [coin_id |-> df[i].coin_id, symbol |-> symbol, name |-> name,
         collected_at |-> df[i].collected_at,
         current_price |-> df[i].current_price,
         market_cap |-> df[i].market_cap,
         total_volume |-> df[i].total_volume]]

\* The frame is handed to insert_dataframe but its rows are never committed.
LoopBody_Uncommitted(st, coin, hist_data, faultAt) ==
    IF hist_data = None
    THEN [store |-> st, line |-> "Falha", saved |-> 0, added |-> 0]
    ELSE LET df == process_historical_data(coin.id, hist_data[1])
         IN IF df = <<>>
            THEN [store |-> st, line |-> "Vazio", saved |-> 0, added |-> 0]
            ELSE LET r == insert_dataframe(st,
                              BackFill(df, coin.symbol, coin.name),
                              IF faultAt > Len(df) + 1 THEN 0 ELSE faultAt)
                 IN [store |-> st, line |-> "Salvo", saved |-> r.ret,
                     added |-> Cardinality(r.store \ st)]

\* The count added to total_saved is the length of the frame handed to
\* insert_dataframe.
LoopBody_CountsAttempted(st, coin, hist_data, faultAt) ==
    IF hist_data = None
    THEN [store |-> st, line |-> "Falha", saved |-> 0, added |-> 0]
    ELSE LET df == process_historical_data(coin.id, hist_data[1])
         IN IF df = <<>>
            THEN [store |-> st, line |-> "Vazio", saved |-> 0, added |-> 0]
            ELSE LET r == insert_dataframe(st,
                              BackFill(df, coin.symbol, coin.name),
                              IF faultAt > Len(df) + 1 THEN 0 ELSE faultAt)
                 IN [store |-> r.store, line |-> "Salvo", saved |-> Len(df),
                     added |-> Cardinality(r.store \ st)]

\* The body of the loop for one coin, given what the client returned: the
\* store afterwards, the line printed, the count added to total_saved and
\* the number of rows the store gained.
LoopBody(st, coin, hist_data, faultAt) ==
    IF hist_data = None
    THEN [store |-> st, line |-> "Falha", saved |-> 0, added |-> 0]
    ELSE LET df == process_historical_data(coin.id, hist_data[1])
         IN IF df = <<>>
            THEN [store |-> st, line |-> "Vazio", saved |-> 0, added |-> 0]
            ELSE LET r == insert_dataframe(st,
                              BackFill(df, coin.symbol, coin.name),
                              IF faultAt > Len(df) + 1 THEN 0 ELSE faultAt)
                 IN [store |-> r.store, line |-> "Salvo", saved |-> r.ret,
                     added |-> Cardinality(r.store \ st)]

\* Rows a previous historical run left in the store.
PriorRows ==
    Range(BackFill(process_historical_data("bitcoin", GoodPayload),
                   "btc", "Bitcoin"))

InitHistorical ==
    /\ store \in {{}, PriorRows}
    /\ now = 0
    /\ last = NoCall
    /\ raw_history = EmptyObject
    /\ records = <<>>
    /\ mstate = "input"
    /\ HistIdle
    /\ OthersIdle

\* collect_historical_data up to the loop: the reference list is fetched and
\* a missing or empty list ends the run with False.
StartHistorical ==
    /\ hpc = "idle"
    /\ \E res \in TopCoinResults :
           IF res = None \/ res[1] = <<>>
           THEN /\ hpc' = "returned_false"
                /\ UNCHANGED <<top_coins, idx, requests>>
           ELSE /\ hpc' = "fetching"
                /\ top_coins' = res[1]
                /\ idx' = 1
                /\ requests' = [k \in 1..Len(res[1]) |-> 0]
    /\ UNCHANGED <<store, now, last, raw_history, records, mstate,
                   total_saved, outcomes, rt, fx, mn>>

\* A request for the current coin is answered 429: the client sleeps and
\* calls itself again with the same arguments.
RateLimited ==
    /\ hpc = "fetching"
    /\ requests[idx] + 1 < MaxRequests
    /\ requests' = [requests EXCEPT ![idx] = @ + 1]
    /\ UNCHANGED <<store, now, last, raw_history, records, mstate, hpc,
                   top_coins, idx, total_saved, outcomes, rt, fx, mn>>

\* A request for the current coin gets any other answer: the client returns,
\* the loop body runs for the coin and the loop moves on.
FetchAndProcess ==
    /\ hpc = "fetching"
    /\ \E resp \in {x \in ChartResponses : x.status # "429"},
          faultAt \in 0..1 :
           LET got == get_coin_market_chart_range(resp)
               it == LoopBody(store, top_coins[idx], got.data, faultAt)
           IN /\ requests' = [requests EXCEPT ![idx] = @ + 1]
              /\ IF got.raised
                 THEN /\ hpc' = "raised"
                      /\ UNCHANGED <<store, idx, total_saved, outcomes>>
                 ELSE /\ store' = it.store
                      /\ total_saved' = total_saved + it.saved
                      /\ outcomes' = Append(outcomes,
                             [coin_id |-> top_coins[idx].id, line |-> it.line,
                              saved |-> it.saved, added |-> it.added])
                      /\ idx' = idx + 1
                      /\ hpc' = IF idx = Len(top_coins) THEN "done"
                                ELSE "fetching"
    /\ UNCHANGED <<now, last, raw_history, records, mstate, top_coins, rt, fx,
                   mn>>

NextHistorical == StartHistorical \/ RateLimited \/ FetchAndProcess

SpecHistorical == InitHistorical /\ [][NextHistorical]_vars

\* ------------------------------------------------------------------------
\* Historical run: claims
\* ------------------------------------------------------------------------
\* C11: bounded retry.  No coin of a historical run causes more than two
\* provider requests: after a 429 the coin is fetched again at most once.
\* The client calls itself on every 429, without counting.
C11_BoundedRetryClaim ==
    \A k \in 1..Len(requests) : requests[k] <= 2

\* The run visits the coins of the list one by one: the lines printed so far
\* are those of the coins before the current one, in list order.
OnePerCoin ==
    /\ Len(outcomes) <= Len(top_coins)
    /\ \A k \in 1..Len(outcomes) : outcomes[k].coin_id = top_coins[k].id
    /\ hpc = "fetching" => Len(outcomes) = idx - 1
    /\ hpc = "done" => Len(outcomes) = Len(top_coins)

\* A coin whose line is not "Salvo" changes neither the store nor the count.
SkipStoresNothing ==
    (outcomes' # outcomes /\ outcomes'[Len(outcomes')].line # "Salvo")
        => (store' = store /\ total_saved' = total_saved)

\* C12: per-coin failures do not abort a historical run.  Every coin of the
\* reference list is attempted exactly once, in list order; no exception
\* leaves the loop; a coin whose fetch failed or came back empty stores
\* nothing, and the run ends only after the last coin.
C12_PerCoinIsolation ==
    /\ [](OnePerCoin /\ hpc # "raised")
    /\ [][SkipStoresNothing]_vars

\* C12 witness: a finished run whose first coin failed and whose second coin
\* was stored.
C12_Witness ==
    /\ hpc = "done"
    /\ Len(outcomes) >= 2
    /\ outcomes[1].line = "Falha"
    /\ outcomes[2].line = "Salvo"
    /\ outcomes[2].added > 0

\* The non-negativity rule of the contract on one row.
NonNegativeRow(r) ==
    \A c \in {"current_price", "market_cap", "total_volume"} :
        r[c] = None \/ r[c][1] >= 0

\* C13: historical batches are validated before insert_dataframe, so that no
\* row with a negative current_price, market_cap or total_volume is ever
\* added to the store.  The historical loop never calls the validation.
C13_HistoricalValidatedClaim ==
    [][\A r \in store' \ store : NonNegativeRow(r)]_vars

\* str.upper() on the symbols of the sample.
Upper(s) ==
    CASE s = "btc" -> "BTC"
      [] s = "eth" -> "ETH"
      [] s = "usdt" -> "USDT"
      [] s = "sol" -> "SOL"
      [] OTHER -> s

\* C19: every row that reaches the store has an upper-case symbol.  The
\* historical loop back-fills the symbol of the reference list as it is.
C19_UpperSymbolClaim ==
    [][\A r \in store' \ store : r.symbol = Upper(r.symbol)]_vars

\* ------------------------------------------------------------------------
\* Derived metrics: _add_calculated_metrics
\* ------------------------------------------------------------------------
\* A float64 cell: NaN (also what a missing input becomes under to_numeric),
\* a finite value kept as the exact fraction n/d in lowest terms with d > 0,
\* or an infinity with the sign n.  Rounding of finite values is not
\* represented.
NaN == [k |-> "nan", n |-> 0, d |-> 0]

Inf(sign) == [k |-> "inf", n |-> sign, d |-> 0]

Abs(x) == IF x < 0 THEN 0 - x ELSE x

RECURSIVE GCD(_, _)
GCD(a, b) == IF b = 0 THEN a ELSE GCD(b, a % b)

Num(n, d) ==
    LET g == GCD(Abs(n), Abs(d))
        sg == IF d < 0 THEN 0 - 1 ELSE 1
    IN [k |-> "num", n |-> sg * (n \div g), d |-> sg * (d \div g)]

\* pd.to_numeric on an optional number.
ToFloat(x) == IF x = None THEN NaN ELSE Num(x[1], 1)

\* a - b on finite or missing cells.
FSub(a, b) ==
    IF a.k = "nan" \/ b.k = "nan" THEN NaN
    ELSE Num(a.n * b.d - b.n * a.d, a.d * b.d)

\* a / b on finite or missing cells: a zero divisor gives NaN for a zero
\* dividend and an infinity with the dividend's sign otherwise.
FDiv(a, b) ==
    IF a.k = "nan" \/ b.k = "nan" THEN NaN
    ELSE IF b.n = 0
    THEN IF a.n = 0 THEN NaN ELSE Inf(IF a.n > 0 THEN 1 ELSE 0 - 1)
    ELSE Num(a.n * b.d, a.d * b.n)

\* a * 100
FMul100(a) ==
    IF a.k = "num" THEN Num(a.n * 100, a.d) ELSE a

\* (high_24h - low_24h) / current_price * 100
volatility_24h(r) ==
    FMul100(FDiv(FSub(ToFloat(r.high_24h), ToFloat(r.low_24h)),
                 ToFloat(r.current_price)))

\* The distance is taken relative to the current price.
distance_from_ath_OverPrice(r) ==
    FMul100(FDiv(FSub(ToFloat(r.current_price), ToFloat(r.ath)),
                 ToFloat(r.current_price)))

\* (current_price - ath) / ath * 100
distance_from_ath(r) ==
    FMul100(FDiv(FSub(ToFloat(r.current_price), ToFloat(r.ath)),
                 ToFloat(r.ath)))

\* (current_price - atl) / atl * 100
distance_from_atl(r) ==
    FMul100(FDiv(FSub(ToFloat(r.current_price), ToFloat(r.atl)),
                 ToFloat(r.atl)))

\* total_volume / market_cap
volume_to_mcap_ratio(r) ==
    FDiv(ToFloat(r.total_volume), ToFloat(r.market_cap))

\* A derived column that was not created.
Absent == [k |-> "absent", n |-> 0, d |-> 0]

\* _add_calculated_metrics on one row of a frame with the given columns: a
\* metric is computed when all its input columns exist.
add_calculated_metrics(columns, r) ==
    [volatility_24h |->
        IF {"high_24h", "low_24h", "current_price"} \subseteq columns
        THEN volatility_24h(r) ELSE Absent,
     distance_from_ath |->
        IF {"ath", "current_price"} \subseteq columns
        THEN distance_from_ath(r) ELSE Absent,
     distance_from_atl |->
        IF {"atl", "current_price"} \subseteq columns
        THEN distance_from_atl(r) ELSE Absent,
     volume_to_mcap_ratio |->
        IF {"total_volume", "market_cap"} \subseteq columns
        THEN volume_to_mcap_ratio(r) ELSE Absent]

MetricInputs ==
    {"high_24h", "low_24h", "current_price", "ath", "atl", "total_volume",
     "market_cap"}

\* Rows with small inputs: each input missing, zero or not.
SmallMetricRows ==
    [high_24h : {None, Some(3)},
     low_24h : {None, Some(1), Some(3)},
     current_price : {None, Some(0 - 1), Some(0), Some(2)},
     ath : {None, Some(0), Some(4)},
     atl : {None, Some(0), Some(1)},
     total_volume : {None, Some(0), Some(3)},
     market_cap : {None, Some(0), Some(6)}]

\* The row of test_calculated_metrics.
FixtureRow ==
    [high_24h |-> Some(51000), low_24h |-> Some(49000),
     current_price |-> Some(50000), ath |-> Some(100000), atl |-> Some(67),
     total_volume |-> Some(50000000), market_cap |-> Some(1000000000)]

MetricRows == SmallMetricRows \cup {FixtureRow}

\* The frames handed to _add_calculated_metrics: all input columns, or one
\* of them missing.
MetricColumnSets ==
    {MetricInputs} \cup
    {MetricInputs \ {c} : c \in {"ath", "market_cap", "current_price"}}

InitDerive ==
    /\ store = {}
    /\ now = 0
    /\ last = NoCall
    /\ raw_history = EmptyObject
    /\ records = <<>>
    /\ mstate = "input"
    /\ HistIdle
    /\ rt = NoRun
    /\ mn = NoRun
    /\ \E cols \in MetricColumnSets, r \in MetricRows :
           fx = [op |-> "metrics_input", columns |-> cols, row |-> r,
                 out |-> None, raised |-> FALSE]

\* A call of _add_calculated_metrics.
AddCalculatedMetrics ==
    /\ fx.op = "metrics_input"
    /\ fx' = [fx EXCEPT !.op = "metrics_done",
                        !.out = Some(add_calculated_metrics(fx.columns,
                                                            fx.row))]
    /\ UNCHANGED <<store, now, last, raw_history, records, mstate, histVars,
                   rt, mn>>

NextDerive == AddCalculatedMetrics

SpecDerive == InitDerive /\ [][NextDerive]_vars

\* ------------------------------------------------------------------------
\* Derived metrics: claims
\* ------------------------------------------------------------------------
\* v is the finite value num / den (den # 0).
IsQuotient(v, num, den) ==
    /\ v.k = "num"
    /\ v.d > 0
    /\ v.n * den = num * v.d

Present1(r, cols, ins) ==
    /\ ins \subseteq cols
    /\ \A c \in ins : r[c] # None

\* C17: for every row with all inputs present and non-zero denominators the
\* four derived metrics equal their formulas; price 50000, high 51000 and
\* low 49000 give volatility 4, and price 50000 with ath 100000 gives
\* distance_from_ath -50.
C17_MetricsMatchFormulas ==
    fx.op = "metrics_done" =>
        LET r == fx.row
            cols == fx.columns
            m == fx.out[1]
        IN /\ (Present1(r, cols, {"high_24h", "low_24h", "current_price"})
                 /\ r.current_price[1] # 0)
               => IsQuotient(m.volatility_24h,
                             (r.high_24h[1] - r.low_24h[1]) * 100,
                             r.current_price[1])
           /\ (Present1(r, cols, {"ath", "current_price"}) /\ r.ath[1] # 0)
               => IsQuotient(m.distance_from_ath,
                             (r.current_price[1] - r.ath[1]) * 100, r.ath[1])
           /\ (Present1(r, cols, {"atl", "current_price"}) /\ r.atl[1] # 0)
               => IsQuotient(m.distance_from_atl,
                             (r.current_price[1] - r.atl[1]) * 100, r.atl[1])
           /\ (Present1(r, cols, {"total_volume", "market_cap"})
                 /\ r.market_cap[1] # 0)
               => IsQuotient(m.volume_to_mcap_ratio, r.total_volume[1],
                             r.market_cap[1])
           /\ (r = FixtureRow /\ cols = MetricInputs)
               => /\ m.volatility_24h = [k |-> "num", n |-> 4, d |-> 1]
                  /\ m.distance_from_ath = [k |-> "num", n |-> 0 - 50, d |-> 1]

\* C17 witness: the metrics of the test row were computed.
C17_Witness ==
    /\ fx.op = "metrics_done"
    /\ fx.row = FixtureRow
    /\ fx.columns = MetricInputs
    /\ fx.out[1].volatility_24h.k = "num"

\* The inputs and the denominator of each derived metric.
MetricSpec ==
    {[name |-> "volatility_24h",
      ins |-> {"high_24h", "low_24h", "current_price"},
      den |-> "current_price"],
     [name |-> "distance_from_ath", ins |-> {"ath", "current_price"},
      den |-> "ath"],
     [name |-> "distance_from_atl", ins |-> {"atl", "current_price"},
      den |-> "atl"],
     [name |-> "volume_to_mcap_ratio", ins |-> {"total_volume", "market_cap"},
      den |-> "market_cap"]}

\* C18: for every row, a derived field has a value only if all of its
\* inputs are present, and when its denominator is zero the field is the
\* undefined (not-a-number) sentinel; deriving never fails.  A zero
\* denominator under a non-zero numerator gives an infinity instead.
C18_UndefinedOnZeroClaim ==
    fx.op = "metrics_done" =>
        /\ ~fx.raised
        /\ \A ms \in MetricSpec :
               LET v == fx.out[1][ms.name]
               IN /\ v.k \in {"num", "inf"}
                      => Present1(fx.row, fx.columns, ms.ins)
                  /\ (Present1(fx.row, fx.columns, ms.ins)
                        /\ fx.row[ms.den][1] = 0)
                      => v.k = "nan"

\* ------------------------------------------------------------------------
\* The data contract: MarketDataSchema
\* ------------------------------------------------------------------------
MaxFrameLen == 2

\* The columns of the schema.  Every Column is required (pandera's default),
\* nullable as declared, and the three financial columns carry Check.ge(0).
MarketDataSchema ==
    {[name |-> "id", nullable |-> FALSE, ge0 |-> FALSE],
     [name |-> "symbol", nullable |-> FALSE, ge0 |-> FALSE],
     [name |-> "name", nullable |-> FALSE, ge0 |-> FALSE],
     [name |-> "current_price", nullable |-> TRUE, ge0 |-> TRUE],
     [name |-> "market_cap", nullable |-> TRUE, ge0 |-> TRUE],
     [name |-> "total_volume", nullable |-> TRUE, ge0 |-> TRUE],
     [name |-> "price_change_24h", nullable |-> TRUE, ge0 |-> FALSE],
     [name |-> "price_change_percentage_24h", nullable |-> TRUE,
      ge0 |-> FALSE],
     [name |-> "collected_at", nullable |-> FALSE, ge0 |-> FALSE]}

SchemaColumns == {col.name : col \in MarketDataSchema}

\* Zero is refused as well.
CheckGe0_Strict(v) == v > 0

\* Check.ge(0) on a non-null value.
CheckGe0(v) == v >= 0

\* The failure cases of one column on a frame [columns, rows]: the column is
\* missing, a null stands in a non-nullable column, or a non-null value
\* fails the check (nulls are not handed to checks).
ColumnFailures(df, col) ==
    IF col.name \notin df.columns
    THEN {[column |-> col.name, index |-> 0, check |-> "column_in_dataframe"]}
    ELSE {[column |-> col.name, index |-> i, check |-> "not_nullable"] :
             i \in {j \in 1..Len(df.rows) :
                      ~col.nullable /\ df.rows[j][col.name] = None}}
         \cup
         {[column |-> col.name, index |-> i,
           check |-> "greater_than_or_equal_to(0)"] :
             i \in {j \in 1..Len(df.rows) :
                      /\ col.ge0
                      /\ df.rows[j][col.name] # None
                      /\ ~CheckGe0(df.rows[j][col.name][1])}}

\* The error raised carries the first failure found only.
SchemaValidate_FirstOnly(df) ==
    LET failures == UNION {ColumnFailures(df, col) : col \in MarketDataSchema}
    IN [raised |-> failures # {},
        failure_cases |-> IF failures = {} THEN {}
                          ELSE {CHOOSE f \in failures : TRUE}]

\* MarketDataSchema.validate(df, lazy=True): SchemaErrors with every failure
\* case when there is one, the frame otherwise.
SchemaValidate(df) ==
    LET failures == UNION {ColumnFailures(df, col) : col \in MarketDataSchema}
    IN [raised |-> failures # {}, failure_cases |-> failures]

\* Sample rows for the contract: one row varies in its identity fields, the
\* others in the three financial fields.
ValidRow ==
    [id |-> Some("bitcoin"), symbol |-> Some("BTC"), name |-> Some("Bitcoin"),
     current_price |-> Some(5), market_cap |-> Some(7),
     total_volume |-> Some(3), price_change_24h |-> Some(0 - 2),
     price_change_percentage_24h |-> None, collected_at |-> Some(0)]

SchemaRows ==
    {[ValidRow EXCEPT !.symbol = sy, !.name = nm] :
        sy \in {None, Some("BTC")}, nm \in {None, Some("Bitcoin")}}
    \cup
    {[ValidRow EXCEPT !.current_price = cp, !.market_cap = mc,
                      !.total_volume = tv] :
        cp \in {None, Some(0 - 1), Some(0)},
        mc \in {None, Some(0 - 1), Some(7)},
        tv \in {None, Some(0 - 1), Some(3)}}

Restrict(r, cols) == [c \in cols |-> r[c]]

\* Frames handed to validate: every schema column, or one of them missing.
SchemaFrames ==
    {[columns |-> SchemaColumns \ drop,
      rows |-> [i \in 1..Len(rows) |->
                   Restrict(rows[i], SchemaColumns \ drop)]] :
        drop \in {{}, {"symbol"}, {"name"}, {"current_price"}},
        rows \in UNION {[1..n -> SchemaRows] : n \in 0..MaxFrameLen}}

InitSchema ==
    /\ store = {}
    /\ now = 0
    /\ last = NoCall
    /\ raw_history = EmptyObject
    /\ records = <<>>
    /\ mstate = "input"
    /\ HistIdle
    /\ rt = NoRun
    /\ mn = NoRun
    /\ \E df \in SchemaFrames :
           fx = [op |-> "schema_input", df |-> df, out |-> None]

\* A call of MarketDataSchema.validate(df, lazy=True).
ValidateFrame ==
    /\ fx.op = "schema_input"
    /\ fx' = [fx EXCEPT !.op = "validated", !.out = Some(SchemaValidate(fx.df))]
    /\ UNCHANGED <<store, now, last, raw_history, records, mstate, histVars,
                   rt, mn>>

NextSchema == ValidateFrame

SpecSchema == InitSchema /\ [][NextSchema]_vars

\* ------------------------------------------------------------------------
\* The data contract: claims
\* ------------------------------------------------------------------------
\* Every constraint of the contract other than non-negativity holds of the
\* frame: all columns are there and no identity or timestamp value is null.
OtherConstraintsHold(df) ==
    /\ df.columns = SchemaColumns
    /\ \A i \in 1..Len(df.rows) :
           \A c \in {"id", "symbol", "name", "collected_at"} :
               df.rows[i][c] # None

HasNegativePrice(df) ==
    /\ "current_price" \in df.columns
    /\ \E i \in 1..Len(df.rows) :
           /\ df.rows[i].current_price # None
           /\ df.rows[i].current_price[1] < 0

MaxItems == 2

ItemKeys ==
    {"id", "symbol", "name", "current_price", "market_cap", "total_volume",
     "high_24h", "low_24h", "ath", "atl", "price_change_24h",
     "price_change_percentage_24h", "market_cap_rank", "collected_at"}

\* Records of the markets endpoint: the keys present and their values (None
\* is a JSON null).  The records carry a collected_at of their own, as the
\* payload of test_full_pipeline_flow does.
BaseItem ==
    [keys |-> ItemKeys, id |-> Some("bitcoin"), symbol |-> Some("btc"),
     name |-> Some("Bitcoin"), current_price |-> Some(2),
     market_cap |-> Some(6), total_volume |-> Some(3), high_24h |-> Some(3),
     low_24h |-> Some(1), ath |-> Some(4), atl |-> Some(1),
     price_change_24h |-> Some(0 - 2), price_change_percentage_24h |-> None,
     market_cap_rank |-> Some(1), collected_at |-> Some(99)]

SolItem ==
    [BaseItem EXCEPT !.id = Some("solana"), !.symbol = Some("sol"),
                     !.name = Some("Solana"), !.market_cap_rank = Some(2)]

RawItems ==
    {BaseItem,
     [BaseItem EXCEPT !.current_price = Some(0 - 1)],
     [BaseItem EXCEPT !.market_cap = Some(0 - 1),
                      !.total_volume = Some(0 - 1)],
     [SolItem EXCEPT !.keys = ItemKeys \ {"symbol"}],
     [SolItem EXCEPT !.keys = ItemKeys \ {"name"}],
     [SolItem EXCEPT !.symbol = None]}

\* What get_top_cryptocurrencies hands to the run: None on a failed request,
\* else a list of records (possibly empty).
MarketResults ==
    {None} \cup {Some(l) : l \in UNION {[1..n -> RawItems] : n \in 0..MaxItems}}

\* item.get(key)
Get(item, key) == IF key \in item.keys THEN item[key] ELSE None

\* The collection instant is copied from the record.
CollectedAt_FromPayload(item, clock) == Get(item, "collected_at")

\* df["collected_at"] = datetime.now(): one instant for the whole frame,
\* whatever the records hold.
CollectedAt(item, clock) == Some(clock)

\* The record process_market_data builds for one item, with collected_at
\* and the calculated metrics: item.get("symbol", "").upper() reads an
\* absent symbol as the empty string.
MarketRecord(item, clock) ==
    LET r == [id |-> Get(item, "id"),
              symbol |-> Some(Upper(IF "symbol" \in item.keys
                                    THEN item.symbol[1] ELSE "")),
              name |-> Get(item, "name"),
              current_price |-> Get(item, "current_price"),
              market_cap |-> Get(item, "market_cap"),
              market_cap_rank |-> Get(item, "market_cap_rank"),
              total_volume |-> Get(item, "total_volume"),
              high_24h |-> Get(item, "high_24h"),
              low_24h |-> Get(item, "low_24h"),
              ath |-> Get(item, "ath"),
              atl |-> Get(item, "atl"),
              price_change_24h |-> Get(item, "price_change_24h"),
              price_change_percentage_24h |->
                  Get(item, "price_change_percentage_24h"),
              collected_at |-> CollectedAt(item, clock)]
        m == add_calculated_metrics(MetricInputs, r)
    IN [id |-> r.id, symbol |-> r.symbol, name |-> r.name,
        current_price |-> r.current_price, market_cap |-> r.market_cap,
        market_cap_rank |-> r.market_cap_rank,
        total_volume |-> r.total_volume, high_24h |-> r.high_24h,
        low_24h |-> r.low_24h, ath |-> r.ath, atl |-> r.atl,
        price_change_24h |-> r.price_change_24h,
        price_change_percentage_24h |-> r.price_change_percentage_24h,
        collected_at |-> r.collected_at,
        volatility_24h |-> m.volatility_24h,
        distance_from_ath |-> m.distance_from_ath,
        distance_from_atl |-> m.distance_from_atl,
        volume_to_mcap_ratio |-> m.volume_to_mcap_ratio]

MarketColumns ==
    SchemaColumns \cup {"market_cap_rank", "high_24h", "low_24h", "ath", "atl",
                        "volatility_24h",
                        "distance_from_ath", "distance_from_atl",
                        "volume_to_mcap_ratio"}

\* process_market_data(raw_data) at the given clock: an empty list raises
\* ValueError, a null symbol raises AttributeError on .upper(), a frame that
\* fails the contract raises SchemaErrors; otherwise the frame is returned.
process_market_data(raw_data, clock) ==
    IF raw_data = <<>>
    THEN [raised |-> TRUE, error |-> "ValueError", failure_cases |-> {},
          df |-> <<>>]
    ELSE IF \E i \in 1..Len(raw_data) :
                "symbol" \in raw_data[i].keys /\ raw_data[i].symbol = None
    THEN [raised |-> TRUE, error |-> "AttributeError", failure_cases |-> {},
          df |-> <<>>]
    ELSE LET rows == [i \in 1..Len(raw_data) |->
                         MarketRecord(raw_data[i], clock)]
             v == SchemaValidate([columns |-> MarketColumns, rows |-> rows])
         IN IF v.raised
            THEN [raised |-> TRUE, error |-> "SchemaErrors",
                  failure_cases |-> v.failure_cases, df |-> <<>>]
            ELSE [raised |-> FALSE, error |-> "none", failure_cases |-> {},
                  df |-> rows]

\* The symbol column is renamed instead of the id column.
ToInsert_RenamesSymbol(df) ==
    [i \in 1..Len(df) |->
        [coin_id |-> df[i].symbol[1], symbol |-> df[i].symbol[1],
         name |-> df[i].name[1], collected_at |-> df[i].collected_at[1],
         current_price |-> df[i].current_price,
         market_cap |-> df[i].market_cap,
         market_cap_rank |-> df[i].market_cap_rank,
         total_volume |-> df[i].total_volume,
         volatility_24h |-> df[i].volatility_24h,
         distance_from_ath |-> df[i].distance_from_ath,
         distance_from_atl |-> df[i].distance_from_atl,
         volume_to_mcap_ratio |-> df[i].volume_to_mcap_ratio]]

\* The rows to_sql writes for a validated frame: id becomes coin_id.
ToInsert(df) ==
    [i \in 1..Len(df) |->
        [coin_id |-> df[i].id[1], symbol |-> df[i].symbol[1],
         name |-> df[i].name[1], collected_at |-> df[i].collected_at[1],
         current_price |-> df[i].current_price,
         market_cap |-> df[i].market_cap,
         market_cap_rank |-> df[i].market_cap_rank,
         total_volume |-> df[i].total_volume,
         volatility_24h |-> df[i].volatility_24h,
         distance_from_ath |-> df[i].distance_from_ath,
         distance_from_atl |-> df[i].distance_from_atl,
         volume_to_mcap_ratio |-> df[i].volume_to_mcap_ratio]]

InitRealtime ==
    /\ store = {}
    /\ now = 0
    /\ last = NoCall
    /\ raw_history = EmptyObject
    /\ records = <<>>
    /\ mstate = "input"
    /\ HistIdle
    /\ OthersIdle

\* collect_realtime_data up to the answer of get_top_cryptocurrencies.
FetchMarkets ==
    /\ rt.op # "fetched"
    /\ \E res \in MarketResults : rt' = [op |-> "fetched", raw_data |-> res]
    /\ UNCHANGED <<store, now, last, raw_history, records, mstate, histVars,
                   fx, mn>>

\* The rest of collect_realtime_data: a missing or empty list returns False;
\* otherwise the list is processed, an exception of process_market_data
\* leaves the function, and the frame returned is inserted.
ProcessAndStore ==
    /\ rt.op = "fetched"
    /\ \E faultAt \in 0..1 :
           IF rt.raw_data = None \/ rt.raw_data[1] = <<>>
           THEN /\ rt' = [op |-> "collect_realtime_data",
                          raw_data |-> rt.raw_data, result |-> "False",
                          error |-> "none", failure_cases |-> {}, rows |-> 0]
                /\ store' = store
           ELSE LET p == process_market_data(rt.raw_data[1], now)
                    r == insert_dataframe(store, ToInsert(p.df), faultAt)
                IN IF p.raised
                   THEN /\ rt' = [op |-> "collect_realtime_data",
                                  raw_data |-> rt.raw_data,
                                  result |-> "raised", error |-> p.error,
                                  failure_cases |-> p.failure_cases,
                                  rows |-> 0]
                        /\ store' = store
                   ELSE /\ rt' = [op |-> "collect_realtime_data",
                                  raw_data |-> rt.raw_data,
                                  result |-> "True", error |-> "none",
                                  failure_cases |-> {}, rows |-> r.ret]
                        /\ store' = r.store
    /\ UNCHANGED <<now, last, raw_history, records, mstate, histVars, fx, mn>>

NextRealtime == FetchMarkets \/ ProcessAndStore \/ Tick

SpecRealtime == InitRealtime /\ [][NextRealtime]_vars

\* ------------------------------------------------------------------------
\* Realtime run: claims
\* ------------------------------------------------------------------------
\* The cells of a fetched list that break the contract once derived: a
\* negative financial value, or no id or name.
RawViolations(raw) ==
    {<<i, c>> \in (1..Len(raw)) \X {"current_price", "market_cap",
                                    "total_volume"} :
        Get(raw[i], c) # None /\ Get(raw[i], c)[1] < 0}
    \cup
    {<<i, c>> \in (1..Len(raw)) \X {"id", "name"} : Get(raw[i], c) = None}

\* A run ended in this step.
RunEnds == rt.op = "fetched" /\ rt'.op = "collect_realtime_data"

\* C14: realtime ordering and atomic rejection.  The fetched list is
\* derived, validated and stored as one batch stamped with the processing
\* time; if any row of it violates the contract, process_market_data fails
\* with an error that lists every violating row and field, and whenever it
\* fails the store is left as it was.
C14_AtomicRejection ==
    [][RunEnds =>
        /\ rt'.result = "raised" => store' = store
        /\ (rt'.raw_data # None /\ rt'.error \in {"none", "SchemaErrors"}
              /\ RawViolations(rt'.raw_data[1]) # {})
             => /\ rt'.result = "raised"
                /\ \A v \in RawViolations(rt'.raw_data[1]) :
                       \E f \in rt'.failure_cases :
                           f.index = v[1] /\ f.column = v[2]
        /\ \A r \in store' \ store :
               /\ r.collected_at = now
               /\ NonNegativeRow(r)
               /\ \E i \in 1..Len(rt'.raw_data[1]) :
                      Get(rt'.raw_data[1][i], "id") = Some(r.coin_id)
        /\ store \subseteq store'
      ]_vars

\* C14 witness: a run was rejected for two violations or more while the
\* store held rows of an earlier run.
C14_Witness ==
    /\ rt.op = "collect_realtime_data"
    /\ rt.result = "raised"
    /\ rt.error = "SchemaErrors"
    /\ Cardinality(rt.failure_cases) >= 2
    /\ store # {}

\* C16: required identity fields.  A batch that process_market_data builds
\* from a raw record lacking the symbol or the name key is rejected by the
\* contract.  A missing symbol key is read as the empty string, which is
\* not null, and the batch is accepted.
C16_IdentityRequiredClaim ==
    (/\ rt.op = "collect_realtime_data"
     /\ rt.raw_data # None
     /\ \E i \in 1..Len(rt.raw_data[1]) :
            {"symbol", "name"} \ rt.raw_data[1][i].keys # {})
        => rt.result = "raised"

\* ------------------------------------------------------------------------
\* Retention: claims
\* ------------------------------------------------------------------------
\* C20: retention pruning.  delete_old_data(days_to_keep) removes exactly
\* the stored rows whose collected_at is older than the current time minus
\* days_to_keep days, leaves every other row as it is and returns the number
\* of rows removed; with days_to_keep = 0 it removes all existing rows.  The
\* comparison is strict and against the storage clock, so a row stamped at
\* or after that clock survives a prune with days_to_keep = 0.
C20_PruneClaim ==
    [][(last'.op = "delete_old_data" /\ now' = now) =>
        /\ store' = {r \in store : ~(r.collected_at < now - last'.days)}
        /\ last'.ret = Cardinality(store \ store')
        /\ last'.days = 0 => store' = {}
      ]_vars

\* ------------------------------------------------------------------------
\* Read operations: get_latest_data
\* ------------------------------------------------------------------------
MaxLimit == 3

\* ORDER BY collected_at ASC: the oldest row comes first.
LatestBefore_Ascending(r, q) ==
    \/ r.collected_at < q.collected_at
    \/ /\ r.collected_at = q.collected_at
       /\ \/ r.market_cap_rank = None /\ q.market_cap_rank # None
          \/ /\ r.market_cap_rank # None
             /\ q.market_cap_rank # None
             /\ r.market_cap_rank[1] < q.market_cap_rank[1]

\* ORDER BY collected_at DESC, market_cap_rank ASC: r sorts strictly before
\* q.  SQLite puts a NULL rank before every rank in ascending order.
LatestBefore(r, q) ==
    \/ r.collected_at > q.collected_at
    \/ /\ r.collected_at = q.collected_at
       /\ \/ r.market_cap_rank = None /\ q.market_cap_rank # None
          \/ /\ r.market_cap_rank # None
             /\ q.market_cap_rank # None
             /\ r.market_cap_rank[1] < q.market_cap_rank[1]

\* One step of the sort: r goes behind the rows that do not sort after it.
InsertByOrder(sorted, r) ==
    LET k == Cardinality({i \in 1..Len(sorted) : ~LatestBefore(r, sorted[i])})
    IN SubSeq(sorted, 1, k) \o <<r>> \o SubSeq(sorted, k + 1, Len(sorted))

\* The rows of a table scan (rows i..Len(scan)), sorted.
RECURSIVE OrderBy(_, _, _)
OrderBy(scan, i, sorted) ==
    IF i > Len(scan) THEN sorted
    ELSE OrderBy(scan, i + 1, InsertByOrder(sorted, scan[i]))

\* get_latest_data(limit) on the table as scanned: the frame returned and
\* the store afterwards.  SQLite reads a negative LIMIT as no limit.
get_latest_data(st, limit, scan) ==
    LET sorted == OrderBy(scan, 1, <<>>)
    IN [store |-> st,
        df |-> IF limit < 0 THEN sorted
               ELSE SubSeq(sorted, 1, Min(limit, Len(sorted)))]

\* The orders in which a scan can deliver the rows of the table: rows whose
\* sort keys tie come out in scan order.
Scans(st) ==
    {sq \in [1..Cardinality(st) -> st] :
        \A i, j \in 1..Cardinality(st) : i # j => sq[i] # sq[j]}

\* Stored rows for the queries: ties on collected_at, on the rank, and rows
\* without a rank (historical rows have none).
QueryRows ==
    {[coin_id |-> "bitcoin", collected_at |-> 0, market_cap_rank |-> Some(1),
      current_price |-> Some(10)],
     [coin_id |-> "ethereum", collected_at |-> 0, market_cap_rank |-> Some(2),
      current_price |-> Some(10)],
     [coin_id |-> "tether", collected_at |-> 0, market_cap_rank |-> None,
      current_price |-> Some(1)],
     [coin_id |-> "solana", collected_at |-> 0, market_cap_rank |-> None,
      current_price |-> None],
     [coin_id |-> "bitcoin", collected_at |-> 1, market_cap_rank |-> Some(1),
      current_price |-> Some(11)],
     [coin_id |-> "ethereum", collected_at |-> 1, market_cap_rank |-> Some(1),
      current_price |-> Some(10)]}

InitQuery ==
    /\ store \in SUBSET QueryRows
    /\ now = 0
    /\ last = NoCall
    /\ raw_history = EmptyObject
    /\ records = <<>>
    /\ mstate = "input"
    /\ HistIdle
    /\ OthersIdle

\* A call of get_latest_data with any limit.
GetLatestData ==
    /\ \E limit \in 0..MaxLimit, scan \in Scans(store) :
           LET r == get_latest_data(store, limit, scan)
           IN /\ store' = r.store
              /\ fx' = [op |-> "get_latest_data", limit |-> limit,
                        df |-> r.df]
    /\ UNCHANGED <<now, last, raw_history, records, mstate, histVars, rt, mn>>

NextQuery == GetLatestData

SpecQuery == InitQuery /\ [][NextQuery]_vars

\* ------------------------------------------------------------------------
\* Read operations: claims
\* ------------------------------------------------------------------------
\* Row r may stand before row q in the answer: it is more recent, or as
\* recent with a rank that is not larger (no rank counting as the smallest).
MayPrecede(r, q) ==
    \/ r.collected_at > q.collected_at
    \/ /\ r.collected_at = q.collected_at
       /\ \/ r.market_cap_rank = None
          \/ /\ q.market_cap_rank # None
             /\ r.market_cap_rank[1] <= q.market_cap_rank[1]

\* C21: get_latest_data(limit) returns min(limit, number of stored rows)
\* rows; they are distinct stored rows, ordered by collected_at descending
\* and, among equal collected_at, by market_cap_rank ascending, and no row
\* left out sorts before a row returned; the store is not modified.
C21_LatestQuery ==
    /\ [](fx.op = "get_latest_data" =>
            /\ Len(fx.df) = Min(fx.limit, Cardinality(store))
            /\ \A i \in 1..Len(fx.df) : fx.df[i] \in store
            /\ \A i, j \in 1..Len(fx.df) :
                   i < j => (fx.df[i] # fx.df[j] /\ MayPrecede(fx.df[i], fx.df[j]))
            /\ \A r \in store \ Range(fx.df) :
                   \A i \in 1..Len(fx.df) : MayPrecede(fx.df[i], r))
    /\ [][store' = store]_vars

\* C21 witness: a query cut the answer short of the store, and the rows it
\* returned include two with the same collected_at and a row without rank.
C21_Witness ==
    /\ fx.op = "get_latest_data"
    /\ Len(fx.df) >= 2
    /\ Len(fx.df) < Cardinality(store)
    /\ fx.df[1].collected_at = fx.df[2].collected_at
    /\ \E i \in 1..Len(fx.df) : fx.df[i].market_cap_rank = None

\* ------------------------------------------------------------------------
\* Realtime run: the collection instant
\* ------------------------------------------------------------------------
\* Two records of the fetched list have the same id.
RepeatedId(raw) ==
    \E i, j \in 1..Len(raw) :
        i < j /\ Get(raw[i], "id") # None /\ Get(raw[i], "id") = Get(raw[j], "id")

\* C30: every row of one process_market_data call carries the same
\* collected_at, the processing time, never the payload's; so a batch in
\* which two records have the same id collides with itself on
\* (coin_id, collected_at): insert_dataframe stores none of its rows and
\* returns 0.
C30_SharedInstant ==
    [][RunEnds =>
        /\ \A r \in store' \ store : r.collected_at = now
        /\ \A r, q \in store' \ store : r.collected_at = q.collected_at
        /\ (rt'.result = "True" /\ RepeatedId(rt'.raw_data[1]))
             => (store' = store /\ rt'.rows = 0)
      ]_vars

\* C30 witness: a run whose list holds the same valid record twice passed
\* the contract and stored nothing.
C30_Witness ==
    /\ rt.op = "collect_realtime_data"
    /\ rt.result = "True"
    /\ Len(rt.raw_data[1]) >= 2
    /\ rt.raw_data[1][1] = rt.raw_data[1][2]
    /\ rt.rows = 0
    /\ \A r \in store : r.collected_at # now

\* ------------------------------------------------------------------------
\* The pipeline end to end: process, insert, read back
\* ------------------------------------------------------------------------
\* Lists of records handed to process_market_data.
RawLists == UNION {[1..n -> RawItems] : n \in 1..MaxItems}

InitRoundTrip ==
    /\ store = {}
    /\ now \in 0..MaxClock
    /\ last = NoCall
    /\ raw_history = EmptyObject
    /\ records = <<>>
    /\ mstate = "input"
    /\ HistIdle
    /\ rt = NoRun
    /\ mn = NoRun
    /\ \E raw \in RawLists :
           fx = [op |-> "trip_input", raw |-> raw, fault |-> 0, ret |-> 0,
                 limit |-> 0, df |-> <<>>]

\* process_market_data on the list, then insert_dataframe on the frame it
\* returns (nothing is inserted when it raises).
TripProcessInsert ==
    /\ fx.op = "trip_input"
    /\ \E faultAt \in 0..1 :
           LET p == process_market_data(fx.raw, now)
               r == insert_dataframe(store, ToInsert(p.df), faultAt)
           IN IF p.raised
              THEN /\ fx' = [fx EXCEPT !.op = "trip_raised"]
                   /\ store' = store
              ELSE /\ fx' = [fx EXCEPT !.op = "trip_inserted",
                                       !.fault = faultAt, !.ret = r.ret]
                   /\ store' = r.store
    /\ UNCHANGED <<now, last, raw_history, records, mstate, histVars, rt, mn>>

\* get_latest_data on the store the insert left.
TripReadBack ==
    /\ fx.op = "trip_inserted"
    /\ \E limit \in 0..MaxLimit, scan \in Scans(store) :
           LET r == get_latest_data(store, limit, scan)
           IN /\ store' = r.store
              /\ fx' = [fx EXCEPT !.op = "trip_read", !.limit = limit,
                                  !.df = r.df]
    /\ UNCHANGED <<now, last, raw_history, records, mstate, histVars, rt, mn>>

NextRoundTrip == TripProcessInsert \/ TripReadBack

SpecRoundTrip == InitRoundTrip /\ [][NextRoundTrip]_vars

\* ------------------------------------------------------------------------
\* The pipeline end to end: claims
\* ------------------------------------------------------------------------
\* C22: round trip.  A single valid raw record processed by
\* process_market_data and inserted into an empty store (the storage being
\* sound) makes insert_dataframe return 1, and get_latest_data(1) then
\* returns exactly one row, whose coin_id is the record's id and whose
\* current_price is the record's current_price.
C22_RoundTrip ==
    /\ (fx.op \in {"trip_inserted", "trip_read"} /\ Len(fx.raw) = 1
          /\ fx.fault = 0)
         => fx.ret = 1
    /\ (fx.op = "trip_read" /\ Len(fx.raw) = 1 /\ fx.fault = 0
          /\ fx.limit = 1)
         => /\ Len(fx.df) = 1
            /\ Some(fx.df[1].coin_id) = fx.raw[1].id
            /\ fx.df[1].current_price = fx.raw[1].current_price

\* C22 witness: one record went through and was read back with limit 1.
C22_Witness ==
    /\ fx.op = "trip_read"
    /\ Len(fx.raw) = 1
    /\ fx.fault = 0
    /\ fx.limit = 1
    /\ Len(fx.df) = 1

\* ------------------------------------------------------------------------
\* Writes, retention and reads on one store (src/src/database.py)
\* ------------------------------------------------------------------------
\* Stored rows with the columns the reads look at: two rows with the same
\* (coin_id, collected_at) and different values, a row without a rank.
OpsRows ==
    {[coin_id |-> "bitcoin", collected_at |-> 0, market_cap_rank |-> Some(1),
      current_price |-> Some(10), market_cap |-> Some(100),
      total_volume |-> Some(5)],
     [coin_id |-> "bitcoin", collected_at |-> 0, market_cap_rank |-> Some(1),
      current_price |-> Some(11), market_cap |-> Some(110),
      total_volume |-> Some(5)],
     [coin_id |-> "bitcoin", collected_at |-> 1, market_cap_rank |-> Some(1),
      current_price |-> None, market_cap |-> None,
      total_volume |-> Some(7)],
     [coin_id |-> "ethereum", collected_at |-> 0, market_cap_rank |-> None,
      current_price |-> Some(10), market_cap |-> Some(50),
      total_volume |-> None]}

OpsBatches == UNION {[1..n -> OpsRows] : n \in 0..MaxBatchLen}

\* ORDER BY collected_at ASC over the rows of one coin (their collected_at
\* are distinct under the UNIQUE constraint).
OrderByCollected(sel) ==
    CHOOSE sq \in [1..Cardinality(sel) -> sel] :
        \A i, j \in 1..Cardinality(sel) :
            i < j => sq[i].collected_at < sq[j].collected_at

\* The value a daily bar shows for a column on day d after the forward
\* fill: the day's own value, else the last earlier one.
RECURSIVE FFill(_, _, _)
FFill(df, col, d) ==
    LET here == {i \in 1..Len(df) : df[i].collected_at = d}
        v == IF here = {} THEN NaN
             ELSE ToFloat(df[CHOOSE i \in here : TRUE][col])
    IN IF v # NaN \/ d <= df[1].collected_at THEN v
       ELSE FFill(df, col, d - 1)

\* resample("D") with OHLC aggregation, forward fill and the moving
\* averages (undefined below their windows): one bar per day from the first
\* to the last row.
Enrich(df) ==
    LET first == df[1].collected_at
        n == df[Len(df)].collected_at - first + 1
    IN [k \in 1..n |->
           [collected_at |-> first + k - 1,
            open |-> FFill(df, "current_price", first + k - 1),
            high |-> FFill(df, "current_price", first + k - 1),
            low |-> FFill(df, "current_price", first + k - 1),
            close |-> FFill(df, "current_price", first + k - 1),
            volume |-> FFill(df, "total_volume", first + k - 1),
            sma_50 |-> NaN, sma_200 |-> NaN]]

\* The query also deletes the rows it selected.
get_coin_history_Purging(st, coin_id, days, enrich_data, clock) ==
    LET sel == {r \in st : r.coin_id = coin_id
                           /\ r.collected_at >= clock - days}
        df == OrderByCollected(sel)
    IN [store |-> st \ sel,
        df |-> IF df # <<>> /\ enrich_data THEN Enrich(df) ELSE df]

\* get_coin_history(coin_id, days, enrich_data): the coin's rows collected
\* in the last days, oldest first, optionally as daily bars.
get_coin_history(st, coin_id, days, enrich_data, clock) ==
    LET sel == {r \in st : r.coin_id = coin_id
                           /\ r.collected_at >= clock - days}
        df == OrderByCollected(sel)
    IN [store |-> st,
        df |-> IF df # <<>> /\ enrich_data THEN Enrich(df) ELSE df]

RECURSIVE SumMarketCap(_)
SumMarketCap(rows) ==
    IF rows = {} THEN 0
    ELSE LET r == CHOOSE x \in rows : TRUE
         IN r.market_cap[1] + SumMarketCap(rows \ {r})

\* get_statistics(): the four aggregates; MIN, MAX and AVG are NULL over no
\* rows.
get_statistics(st) ==
    LET capped == {r \in st : r.market_cap # None}
        times == {r.collected_at : r \in st}
    IN [store |-> st,
        stats |->
          [total_records |-> Cardinality(st),
           unique_coins |-> Cardinality({r.coin_id : r \in st}),
           first_collection |->
               IF st = {} THEN None
               ELSE Some(CHOOSE t \in times : \A u \in times : t <= u),
           last_collection |->
               IF st = {} THEN None
               ELSE Some(CHOOSE t \in times : \A u \in times : t >= u),
           avg_mcap |->
               IF capped = {} THEN NaN
               ELSE Num(SumMarketCap(capped), Cardinality(capped))]]

InitOps ==
    /\ store = {}
    /\ now = 0
    /\ last = NoCall
    /\ raw_history = EmptyObject
    /\ records = <<>>
    /\ mstate = "input"
    /\ HistIdle
    /\ rt = NoRun
    /\ mn = NoRun
    /\ fx = [op |-> "none", df |-> <<>>, ret |-> 0]

OpsInsert ==
    /\ \E df \in OpsBatches, faultAt \in 0..(MaxBatchLen + 1) :
           /\ faultAt <= Len(df) + 1
           /\ LET r == insert_dataframe(store, df, faultAt)
              IN /\ store' = r.store
                 /\ fx' = [op |-> "insert_dataframe", df |-> df,
                           ret |-> r.ret]
    /\ UNCHANGED <<now, last, raw_history, records, mstate, histVars, rt, mn>>

OpsDelete ==
    /\ \E days_to_keep \in 0..MaxDays :
           LET r == delete_old_data(store, days_to_keep, now)
           IN /\ store' = r.store
              /\ fx' = [op |-> "delete_old_data", df |-> <<>>,
                        ret |-> r.ret]
    /\ UNCHANGED <<now, last, raw_history, records, mstate, histVars, rt, mn>>

OpsLatest ==
    /\ \E limit \in 0..MaxLimit, scan \in Scans(store) :
           LET r == get_latest_data(store, limit, scan)
           IN /\ store' = r.store
              /\ fx' = [op |-> "get_latest_data", df |-> r.df,
                        ret |-> Len(r.df)]
    /\ UNCHANGED <<now, last, raw_history, records, mstate, histVars, rt, mn>>

OpsHistory ==
    /\ \E coin_id \in {"bitcoin", "ethereum", "solana"}, days \in 0..MaxDays,
          enrich_data \in BOOLEAN :
           LET r == get_coin_history(store, coin_id, days, enrich_data, now)
           IN /\ store' = r.store
              /\ fx' = [op |-> "get_coin_history", df |-> r.df,
                        ret |-> Len(r.df)]
    /\ UNCHANGED <<now, last, raw_history, records, mstate, histVars, rt, mn>>

OpsStatistics ==
    /\ LET r == get_statistics(store)
       IN /\ store' = r.store
          /\ fx' = [op |-> "get_statistics", df |-> <<r.stats>>,
                    ret |-> 1]
    /\ UNCHANGED <<now, last, raw_history, records, mstate, histVars, rt, mn>>

OpsTick ==
    /\ now < MaxClock
    /\ now' = now + 1
    /\ UNCHANGED <<store, last, raw_history, records, mstate, histVars, rt,
                   fx, mn>>

NextOps ==
    OpsInsert \/ OpsDelete \/ OpsLatest \/ OpsHistory \/ OpsStatistics
        \/ OpsTick

SpecOps == InitOps /\ [][NextOps]_vars

\* ------------------------------------------------------------------------
\* Writes, retention and reads on one store: claims
\* ------------------------------------------------------------------------
ReadOps == {"get_latest_data", "get_coin_history", "get_statistics"}

\* C24: stored rows are immutable.  Across every call a row enters the
\* store only from the frame an insert_dataframe call was given, with the
\* values it has there; a stored (coin_id, collected_at) never changes its
\* values; rows leave the store only through delete_old_data; and the reads
\* get_latest_data, get_coin_history and get_statistics leave the store as
\* it was.
C24_StoredRowsImmutable ==
    [][/\ \A r \in store' \ store :
              fx'.op = "insert_dataframe" /\ r \in Range(fx'.df)
       /\ \A r \in store, q \in store' : Key(r) = Key(q) => r = q
       /\ (store \ store' # {}) => fx'.op = "delete_old_data"
       /\ (fx' # fx /\ fx'.op \in ReadOps) => store' = store]_vars

\* C24 witness: a read has answered with rows from a store that has seen an
\* insert, and the rows it returned are still stored.
C24_Witness ==
    /\ fx.op = "get_coin_history"
    /\ Len(fx.df) = 2
    /\ Cardinality(store) = 3
    /\ now = 1

\* ------------------------------------------------------------------------
\* The markets request (src/src/api_client.py)
\* ------------------------------------------------------------------------
\* The exception classes an exception is an instance of.  A body that does
\* not decode raises requests' JSONDecodeError (a RequestException and a
\* ValueError) or, with older releases of the library, a plain ValueError.
ExceptionClasses(exc) ==
    CASE exc = "ConnectTimeout" ->
             {"ConnectTimeout", "Timeout", "ConnectionError",
              "RequestException"}
      [] exc = "ReadTimeout" -> {"ReadTimeout", "Timeout", "RequestException"}
      [] exc = "ConnectionError" -> {"ConnectionError", "RequestException"}
      [] exc = "TooManyRedirects" -> {"TooManyRedirects", "RequestException"}
      [] exc = "HTTPError" -> {"HTTPError", "RequestException"}
      [] exc = "JSONDecodeError" ->
             {"JSONDecodeError", "RequestException", "ValueError"}
      [] exc = "ValueError" -> {"ValueError"}
      [] exc = "TypeError" -> {"TypeError"}

\* What the request can meet: the transport fails, or a response arrives
\* with a status and a body.
Transports ==
    {"ok", "ConnectTimeout", "ReadTimeout", "ConnectionError",
     "TooManyRedirects"}

Statuses == {200, 400, 401, 403, 404, 429, 500, 503}

\* Bodies: text that is not JSON, JSON that is not a list, and lists of
\* records.
Bodies ==
    {[kind |-> k, items |-> <<>>] :
         k \in {"empty", "html", "null", "number", "object"}}
    \cup {[kind |-> "list", items |-> l] :
              l \in UNION {[1..n -> RawItems] : n \in 0..MaxItems}}

MarketResponses ==
    {[transport |-> t, status |-> 0, body |-> [kind |-> "empty",
                                               items |-> <<>>],
      decoder |-> "JSONDecodeError"] : t \in Transports \ {"ok"}}
    \cup {[transport |-> "ok", status |-> st, body |-> b, decoder |-> d] :
              st \in Statuses, b \in Bodies,
              d \in {"JSONDecodeError", "ValueError"}}

\* The except clauses without the one for ValueError.
Handlers_NoValueError == {"Timeout", "HTTPError", "RequestException"}

\* The except clauses of get_top_cryptocurrencies.
Handlers == {"Timeout", "HTTPError", "RequestException", "ValueError"}

\* The exception the try block raises on a response ("none" when it runs
\* to its return): session.get, raise_for_status, response.json, len(data).
TryMarkets(resp) ==
    IF resp.transport # "ok" THEN resp.transport
    ELSE IF resp.status >= 400 THEN "HTTPError"
    ELSE IF resp.body.kind \in {"empty", "html"} THEN resp.decoder
    ELSE IF resp.body.kind \in {"null", "number"} THEN "TypeError"
    ELSE "none"

\* get_top_cryptocurrencies: the decoded body, None when a clause catches
\* the exception, and the exception itself when none does.
get_top_cryptocurrencies(resp) ==
    LET exc == TryMarkets(resp)
    IN IF exc = "none"
       THEN [raised |-> FALSE, error |-> "none", data |-> Some(resp.body)]
       ELSE IF ExceptionClasses(exc) \cap Handlers # {}
       THEN [raised |-> FALSE, error |-> exc, data |-> None]
       ELSE [raised |-> TRUE, error |-> exc, data |-> None]

InitFetch ==
    /\ store = {}
    /\ now = 0
    /\ last = NoCall
    /\ raw_history = EmptyObject
    /\ records = <<>>
    /\ mstate = "input"
    /\ HistIdle
    /\ rt = NoRun
    /\ mn = NoRun
    /\ \E resp \in MarketResponses :
           fx = [op |-> "request", resp |-> resp, raised |-> FALSE,
                 error |-> "none", data |-> None]

GetTopCryptocurrencies ==
    /\ fx.op = "request"
    /\ LET r == get_top_cryptocurrencies(fx.resp)
       IN fx' = [fx EXCEPT !.op = "get_top_cryptocurrencies",
                           !.raised = r.raised, !.error = r.error,
                           !.data = r.data]
    /\ UNCHANGED <<store, now, last, raw_history, records, mstate, histVars,
                   rt, mn>>

NextFetch == GetTopCryptocurrencies

SpecFetch == InitFetch /\ [][NextFetch]_vars

\* ------------------------------------------------------------------------
\* The markets request: claims
\* ------------------------------------------------------------------------
\* The response is a timeout, an HTTP error status, another request error
\* or a body that does not decode.
FetchFailure(resp) ==
    \/ resp.transport # "ok"
    \/ resp.status \in 400..599
    \/ resp.body.kind \in {"empty", "html"}

\* C26: fetch failures are values.  get_top_cryptocurrencies returns the
\* parsed list when the request succeeds with a list body, and returns None
\* without raising on a timeout, an HTTP error status, any other request
\* error or an undecodable body.
C26_FetchFailuresAreValues ==
    fx.op = "get_top_cryptocurrencies" =>
        /\ FetchFailure(fx.resp) => (~fx.raised /\ fx.data = None)
        /\ (~FetchFailure(fx.resp) /\ fx.resp.body.kind = "list")
             => (~fx.raised /\ fx.data = Some(fx.resp.body))

\* C26 witness: a 200 response whose body is not JSON came back as None.
C26_Witness ==
    /\ fx.op = "get_top_cryptocurrencies"
    /\ fx.resp.transport = "ok"
    /\ fx.resp.status = 200
    /\ fx.resp.body.kind = "html"
    /\ fx.resp.decoder = "ValueError"
    /\ fx.data = None
    /\ ~fx.raised

\* ------------------------------------------------------------------------
\* Historical run: the summary
\* ------------------------------------------------------------------------
\* C27: the run summary is faithful.  Across every step of a historical run
\* the cumulative count grows by exactly the number of rows the store
\* gained (and the store loses none), so the total reported at the end is
\* the number of rows the run newly persisted; and at the end every coin of
\* the reference list has exactly one recorded outcome, in list order,
\* among stored ("Salvo"), empty ("Vazio") and failed ("Falha").
C27_FaithfulSummary ==
    /\ [][/\ store \subseteq store'
          /\ total_saved' - total_saved = Cardinality(store' \ store)]_vars
    /\ [](hpc = "done" =>
            /\ Len(outcomes) = Len(top_coins)
            /\ \A k \in 1..Len(outcomes) :
                   /\ outcomes[k].coin_id = top_coins[k].id
                   /\ outcomes[k].line \in {"Salvo", "Vazio", "Falha"})

\* C27 witness: a finished run over two coins in which one coin's frame
\* collided with stored rows and the other coin's rows were added.
C27_Witness ==
    /\ hpc = "done"
    /\ Len(outcomes) = 2
    /\ \E k \in 1..2 : outcomes[k].line = "Salvo" /\ outcomes[k].added = 0
    /\ total_saved > 0

\* ------------------------------------------------------------------------
\* One chart-range call under rate limiting (src/src/api_client.py)
\* ------------------------------------------------------------------------
\* The call depth is counted up to MaxDepth and stays there.
MaxDepth == 6

InitRetry ==
    /\ store = {}
    /\ now = 0
    /\ last = NoCall
    /\ raw_history = EmptyObject
    /\ records = <<>>
    /\ mstate = "input"
    /\ HistIdle
    /\ rt = NoRun
    /\ mn = NoRun
    /\ \E k \in 1..Len(CoinPool) :
           fx = [op |-> "get_coin_market_chart_range",
                 coin_id |-> CoinPool[k].id, pc |-> "request", depth |-> 1,
                 data |-> None]

\* The provider answers the pending request with 429: the client prints
\* the warning and sleeps 60 s.
ChartRateLimited ==
    /\ fx.op = "get_coin_market_chart_range"
    /\ fx.pc = "request"
    /\ fx' = [fx EXCEPT !.pc = "cooldown"]
    /\ UNCHANGED <<store, now, last, raw_history, records, mstate, histVars,
                   rt, mn>>

\* After the sleep the method calls itself with the same arguments: one
\* frame deeper, a new request is sent.
ChartRetry ==
    /\ fx.op = "get_coin_market_chart_range"
    /\ fx.pc = "cooldown"
    /\ fx' = [fx EXCEPT !.pc = "request",
                        !.depth = Min(fx.depth + 1, MaxDepth)]
    /\ UNCHANGED <<store, now, last, raw_history, records, mstate, histVars,
                   rt, mn>>

\* The provider gives any other answer: the innermost call returns and
\* every frame above it returns the same value.
ChartReturn ==
    /\ fx.op = "get_coin_market_chart_range"
    /\ fx.pc = "request"
    /\ \E resp \in {x \in ChartResponses : x.status # "429"} :
           fx' = [fx EXCEPT !.pc = "returned",
                            !.data = get_coin_market_chart_range(resp).data]
    /\ UNCHANGED <<store, now, last, raw_history, records, mstate, histVars,
                   rt, mn>>

NextRetry == ChartRateLimited \/ ChartRetry \/ ChartReturn

\* Every request is answered, and the client goes on after its sleep; the
\* provider is free to answer 429 every time.
SpecRetryFair ==
    /\ InitRetry
    /\ [][NextRetry]_vars
    /\ WF_vars(ChartRateLimited \/ ChartReturn)
    /\ WF_vars(ChartRetry)

\* ------------------------------------------------------------------------
\* One chart-range call under rate limiting: claims
\* ------------------------------------------------------------------------
\* C28: termination under rate limiting.  Every call of
\* get_coin_market_chart_range returns, after finitely many requests, for
\* every sequence of provider answers, the all-429 sequence included.  The
\* method has no attempt counter: each 429 leads to another self-call.
C28_TerminationClaim == <>(fx.pc = "returned")

\* ------------------------------------------------------------------------
\* The run (src/main.py, main)
\* ------------------------------------------------------------------------
\* The statements of main() inside its try block: opening the store,
\* creating the client, the collection, the final statistics.
TryBody == {"init_db", "enter_client", "collecting", "statistics"}

\* The classes of the exceptions a run meets.
MainClasses(exc) ==
    CASE exc = "KeyboardInterrupt" -> {"KeyboardInterrupt", "BaseException"}
      [] exc = "SystemExit" -> {"SystemExit", "BaseException"}
      [] exc = "Exception" -> {"Exception", "BaseException"}

\* main() without the clause for KeyboardInterrupt.
MainHandlers_NoInterrupt == {"Exception"}

\* The except clauses of main().
MainHandlers == {"KeyboardInterrupt", "Exception"}

\* An exception is raised where the run stands: leaving the with block
\* closes the session; inside the try block a matching clause takes it,
\* anywhere else it leaves main().
Raise(m, exc) ==
    LET closed == IF m.session = "open" THEN "closed" ELSE m.session
        caught == m.pc \in TryBody /\ MainClasses(exc) \cap MainHandlers # {}
    IN [m EXCEPT !.pc = IF ~caught THEN "escaped"
                        ELSE IF exc = "KeyboardInterrupt"
                        THEN "except_interrupt" ELSE "except_exception",
                 !.session = closed, !.exc = exc, !.raised_at = m.pc]

\* A connection scope without the finally clause: an error skips close.
ConnectionScope_NoFinally(block) ==
    CASE block = "ok" -> <<"connect", "commit", "close">>
      [] block = "CommitFailed" -> <<"connect", "commit", "rollback">>
      [] block = "Exception" -> <<"connect", "rollback">>
      [] block = "KeyboardInterrupt" -> <<"connect">>

\* _get_connection: the calls made on the connection, by how its block
\* ended.  Only an Exception is rolled back explicitly; an interrupt goes
\* straight to the finally clause.
ConnectionScope(block) ==
    CASE block = "ok" -> <<"connect", "commit", "close">>
      [] block = "CommitFailed" -> <<"connect", "commit", "rollback", "close">>
      [] block = "Exception" -> <<"connect", "rollback", "close">>
      [] block = "KeyboardInterrupt" -> <<"connect", "close">>

\* The collection function has returned or raised.
CollectionResult ==
    IF mn.mode = "historical"
    THEN IF hpc = "done" THEN "True"
         ELSE IF hpc = "returned_false" THEN "False"
         ELSE IF hpc = "raised" THEN "raised" ELSE "running"
    ELSE IF rt.op = "collect_realtime_data" THEN rt.result ELSE "running"

InitMain ==
    /\ now = 0
    /\ last = NoCall
    /\ raw_history = EmptyObject
    /\ records = <<>>
    /\ mstate = "input"
    /\ HistIdle
    /\ rt = NoRun
    /\ fx = NoRun
    /\ \E mode \in {"realtime", "historical"} :
           mn = [op |-> "main", mode |-> mode, pc |-> "parse",
                 session |-> "none", outcome |-> 0 - 1, success |-> "unset",
                 exc |-> "none", raised_at |-> "none", block |-> "none",
                 scope |-> <<>>]
    /\ store \in IF mn.mode = "historical" THEN {{}, PriorRows} ELSE {{}}

\* parse_arguments(): argparse leaves through SystemExit on a bad command
\* line.
MainParse ==
    /\ mn.pc = "parse"
    /\ \E valid \in BOOLEAN :
           mn' = IF valid THEN [mn EXCEPT !.pc = "banner"]
                 ELSE Raise(mn, "SystemExit")
    /\ UNCHANGED <<store, now, last, raw_history, records, mstate, histVars,
                   rt, fx>>

\* The banner is printed.
MainBanner ==
    /\ mn.pc = "banner"
    /\ mn' = [mn EXCEPT !.pc = "init_db"]
    /\ UNCHANGED <<store, now, last, raw_history, records, mstate, histVars,
                   rt, fx>>

\* CryptoDatabase(db_path): _create_tables runs in a connection scope.
MainOpenDb ==
    /\ mn.pc = "init_db"
    /\ \E block \in {"ok", "CommitFailed", "Exception"} :
           LET m == [mn EXCEPT !.block = block,
                               !.scope = ConnectionScope(block)]
           IN mn' = IF block = "ok" THEN [m EXCEPT !.pc = "enter_client"]
                    ELSE Raise(m, "Exception")
    /\ UNCHANGED <<store, now, last, raw_history, records, mstate, histVars,
                   rt, fx>>

\* with CoinGeckoClient() as client: the session is created.
MainEnterClient ==
    /\ mn.pc = "enter_client"
    /\ mn' = [mn EXCEPT !.pc = "collecting", !.session = "open"]
    /\ UNCHANGED <<store, now, last, raw_history, records, mstate, histVars,
                   rt, fx>>

\* collect_historical_data up to its loop.
MainHistStart ==
    /\ mn.pc = "collecting"
    /\ mn.mode = "historical"
    /\ StartHistorical

\* A 429 while a coin is fetched.
MainHistRateLimited ==
    /\ mn.pc = "collecting"
    /\ mn.mode = "historical"
    /\ RateLimited

\* One iteration of the loop of collect_historical_data.  An interrupt that
\* arrives while insert_dataframe is inside its connection scope ends the
\* scope without commit and leaves the loop.
MainHistCoin ==
    /\ mn.pc = "collecting"
    /\ mn.mode = "historical"
    /\ hpc = "fetching"
    /\ \E resp \in {x \in ChartResponses : x.status # "429"},
          faultAt \in 0..1, interrupted \in BOOLEAN :
           LET got == get_coin_market_chart_range(resp)
               it == LoopBody(store, top_coins[idx], got.data, faultAt)
               block == IF interrupted THEN "KeyboardInterrupt"
                        ELSE IF it.saved > 0 THEN "ok" ELSE "Exception"
               m == IF it.line = "Salvo"
                    THEN [mn EXCEPT !.block = block,
                                    !.scope = ConnectionScope(block)]
                    ELSE mn
           IN /\ requests' = [requests EXCEPT ![idx] = @ + 1]
              /\ IF got.raised
                 THEN /\ mn' = Raise(mn, "Exception")
                      /\ hpc' = "raised"
                      /\ UNCHANGED <<store, idx, total_saved, outcomes>>
                 ELSE IF interrupted /\ it.line = "Salvo"
                 THEN /\ mn' = Raise(m, "KeyboardInterrupt")
                      /\ UNCHANGED <<store, hpc, idx, total_saved, outcomes>>
                 ELSE /\ mn' = m
                      /\ store' = it.store
                      /\ total_saved' = total_saved + it.saved
                      /\ outcomes' = Append(outcomes,
                             [coin_id |-> top_coins[idx].id, line |-> it.line,
                              saved |-> it.saved, added |-> it.added])
                      /\ idx' = idx + 1
                      /\ hpc' = IF idx = Len(top_coins) THEN "done"
                                ELSE "fetching"
    /\ UNCHANGED <<now, last, raw_history, records, mstate, top_coins, rt, fx>>

\* collect_realtime_data: the fetch, then processing and storing.
MainRealtimeFetch ==
    /\ mn.pc = "collecting"
    /\ mn.mode = "realtime"
    /\ rt = NoRun
    /\ FetchMarkets

MainRealtimeStore ==
    /\ mn.pc = "collecting"
    /\ mn.mode = "realtime"
    /\ ProcessAndStore

\* The collection function is over: the with block is left, which closes
\* the session; False returns 1, an exception goes to the handlers.
MainLeaveClient ==
    /\ mn.pc = "collecting"
    /\ CollectionResult # "running"
    /\ mn' = IF CollectionResult = "raised" THEN Raise(mn, "Exception")
             ELSE IF CollectionResult = "True"
             THEN [mn EXCEPT !.pc = "statistics", !.session = "closed",
                             !.success = "True"]
             ELSE [mn EXCEPT !.pc = "returned", !.session = "closed",
                             !.success = "False", !.outcome = 1]
    /\ UNCHANGED <<store, now, last, raw_history, records, mstate, histVars,
                   rt, fx>>

\* db.get_statistics(), four SELECTs in one connection scope, and the
\* closing lines: return 0.
MainStatistics ==
    /\ mn.pc = "statistics"
    /\ \E block \in {"ok", "CommitFailed", "Exception", "KeyboardInterrupt"} :
           LET m == [mn EXCEPT !.block = block,
                               !.scope = ConnectionScope(block)]
           IN mn' = IF block = "ok"
                    THEN [m EXCEPT !.pc = "returned", !.outcome = 0]
                    ELSE IF block = "KeyboardInterrupt"
                    THEN Raise(m, "KeyboardInterrupt")
                    ELSE Raise(m, "Exception")
    /\ UNCHANGED <<store, now, last, raw_history, records, mstate, histVars,
                   rt, fx>>

\* The operator interrupts the process while main() is at one of its
\* statements, between two storage operations.
MainInterrupt ==
    /\ mn.pc \notin {"returned", "escaped"}
    /\ mn' = Raise(mn, "KeyboardInterrupt")
    /\ UNCHANGED <<store, now, last, raw_history, records, mstate, histVars,
                   rt, fx>>

\* except KeyboardInterrupt: return 130.
MainHandleInterrupt ==
    /\ mn.pc = "except_interrupt"
    /\ mn' = [mn EXCEPT !.pc = "returned", !.outcome = 130]
    /\ UNCHANGED <<store, now, last, raw_history, records, mstate, histVars,
                   rt, fx>>

\* except Exception: return 1.
MainHandleException ==
    /\ mn.pc = "except_exception"
    /\ mn' = [mn EXCEPT !.pc = "returned", !.outcome = 1]
    /\ UNCHANGED <<store, now, last, raw_history, records, mstate, histVars,
                   rt, fx>>

NextMain ==
    \/ MainParse
    \/ MainBanner
    \/ MainOpenDb
    \/ MainEnterClient
    \/ MainHistStart
    \/ MainHistRateLimited
    \/ MainHistCoin
    \/ MainRealtimeFetch
    \/ MainRealtimeStore
    \/ MainLeaveClient
    \/ MainStatistics
    \/ MainInterrupt
    \/ MainHandleInterrupt
    \/ MainHandleException

SpecMain == InitMain /\ [][NextMain]_vars

\* ------------------------------------------------------------------------
\* The run: claims
\* ------------------------------------------------------------------------
\* The selected collection function returned True / returned False.
CollectionCompleted ==
    \/ mn.mode = "historical" /\ hpc = "done"
    \/ mn.mode = "realtime" /\ rt.op = "collect_realtime_data"
                            /\ rt.result = "True"

FailedFetch ==
    \/ mn.mode = "historical" /\ hpc = "returned_false"
    \/ mn.mode = "realtime" /\ rt.op = "collect_realtime_data"
                            /\ rt.result = "False"

\* main() returns non-zero after an exception, an interrupt or a failed
\* initial fetch, and 0 only after a completed collection.
OutcomeTellsTheRun ==
    mn.pc = "returned" =>
        /\ mn.outcome \in {0, 1, 130}
        /\ mn.exc = "KeyboardInterrupt" => mn.outcome = 130
        /\ mn.exc = "Exception" => mn.outcome = 1
        /\ FailedFetch => mn.outcome # 0
        /\ mn.outcome = 0 => (CollectionCompleted /\ mn.exc = "none")

\* C23 as claimed: main() never lets an exception or an interrupt escape to
\* the process; it returns non-zero when the run hits an unhandled
\* exception, an operator interrupt or a failed initial fetch, and 0 only
\* when the selected collection mode ran to completion.
C23_RunOutcomeClaim ==
    /\ mn.pc # "escaped"
    /\ OutcomeTellsTheRun

\* C23 amended: an exception or an interrupt raised inside the try block of
\* main() (opening the store, creating the client, the collection, the
\* final statistics) never escapes; what leaves main() as an exception was
\* raised before the try block (argument parsing, banner) or inside one of
\* its handlers.  main() returns non-zero after an exception, an interrupt
\* or a failed initial fetch, and 0 only after a completed collection.
C23_RunOutcome ==
    /\ mn.pc = "escaped" => mn.raised_at \notin TryBody
    /\ mn.raised_at \in TryBody =>
           mn.pc \in {"except_interrupt", "except_exception", "returned"}
    /\ OutcomeTellsTheRun

\* C23 witness: an interrupt during the collection came back as 130.
C23_Witness ==
    /\ mn.pc = "returned"
    /\ mn.outcome = 130
    /\ mn.raised_at = "collecting"
    /\ mn.exc = "KeyboardInterrupt"

\* C25: an interrupt keeps committed work.  No step of a run, the interrupt
\* included, removes a stored row; and the store holds, for every coin the
\* loop has finished, at least the rows the loop added for it.
C25_InterruptKeepsCommitted ==
    /\ [][store \subseteq store']_vars
    /\ [](mn.mode = "historical" =>
            \A k \in 1..Len(outcomes) :
                Cardinality({r \in store :
                                r.coin_id = outcomes[k].coin_id})
                    >= outcomes[k].added)

\* C25 witness: a run over two coins was interrupted after the first coin's
\* rows were stored and before the second coin was done.
C25_Witness ==
    /\ mn.pc = "returned"
    /\ mn.outcome = 130
    /\ mn.mode = "historical"
    /\ mn.raised_at = "collecting"
    /\ Len(top_coins) = 2
    /\ Len(outcomes) = 1
    /\ outcomes[1].added > 0
    /\ Cardinality(store) >= outcomes[1].added

Called(scope, call) == \E i \in 1..Len(scope) : scope[i] = call

\* The connection of a scope is closed, once and last.
ClosedLast(scope) ==
    /\ scope[1] = "connect"
    /\ scope[Len(scope)] = "close"
    /\ Cardinality({i \in 1..Len(scope) : scope[i] = "close"}) = 1

\* C29 as claimed: whenever main() returns, the session it opened has been
\* closed; every connection opened by _get_connection is closed when its
\* block ends, after a commit if the block succeeded and after a rollback
\* if it raised.
C29_ReleaseClaim ==
    /\ mn.pc = "returned" => mn.session # "open"
    /\ mn.scope # <<>> =>
           /\ ClosedLast(mn.scope)
           /\ mn.block = "ok" => Called(mn.scope, "commit")
           /\ mn.block # "ok" => Called(mn.scope, "rollback")

\* C29 amended: whenever main() returns, the session it opened has been
\* closed; every connection opened by _get_connection is closed when its
\* block ends: after a commit if the block succeeded, after a rollback if
\* the block or the commit raised an Exception, and with neither when an
\* interrupt is raised inside the block, in which case closing discards the
\* open transaction and the store is as before the block.
C29_Release ==
    /\ [](mn.pc = "returned" => mn.session # "open")
    /\ [](mn.scope # <<>> =>
            /\ ClosedLast(mn.scope)
            /\ mn.block = "ok" =>
                   (Called(mn.scope, "commit") /\ ~Called(mn.scope, "rollback"))
            /\ mn.block \in {"Exception", "CommitFailed"} =>
                   Called(mn.scope, "rollback")
            /\ mn.block = "KeyboardInterrupt" =>
                   (~Called(mn.scope, "commit")
                        /\ ~Called(mn.scope, "rollback")))
    /\ [][(mn'.block = "KeyboardInterrupt" /\ mn.pc \in TryBody)
              => store' = store]_vars

\* C29 witness: an interrupt inside the connection scope of an insert ended
\* the run; the session and the connection are closed.
C29_Witness ==
    /\ mn.pc = "returned"
    /\ mn.block = "KeyboardInterrupt"
    /\ mn.raised_at = "collecting"
    /\ mn.session = "closed"
    /\ mn.scope = <<"connect", "close">>

====
